---- MODULE Spec2Model ----
(***************************************************************************)
(* Model of the tweet loading pipeline: the relational sink                *)
(* (src/db/postgres_manager.py), the document sink                         *)
(* (src/db/mongo_manager.py) and the coordinator loop run() (src/main.py). *)
(*                                                                         *)
(* Text is modelled as a sequence of one-character strings, so that the    *)
(* per-tag cleanup (strip, lstrip("#"), lower) and the iteration of a      *)
(* string character by character are computed, not assumed.                *)
(***************************************************************************)
EXTENDS Integers, Sequences, FiniteSets, TLC

(* ------------------------------------------------------------------ *)
(* Bounds of the model                                                *)
(* ------------------------------------------------------------------ *)
\* longest batch run() is given
MaxRows == 5
\* longest frame PostgresManager.load_data_from_dataframe is given
MaxFrame == 3
\* longest frame MongoManager.load_data_from_dataframe is given
MaxDocs == 5
\* largest batch size
MaxBatch == 2
\* how many times an entry point is started on the same input
MaxRuns == 2
\* concurrent callers of resolve-or-create
MaxWriters == 2
\* longest hashtags text tried exhaustively
MaxTagText == 3
\* most elements of a hashtags list
MaxTagItems == 3
\* longest boolean-like text tried exhaustively
MaxBoolText == 2
\* longest number-like text tried exhaustively
MaxNumText == 3
\* largest magnitude of a numeric value, in tenths
MaxTenths == 25
\* longest frame handed to a cleaning pass
MaxRaw == 3

(* ------------------------------------------------------------------ *)
(* Text helpers (Python str methods used by the sinks)                *)
(* ------------------------------------------------------------------ *)
IsSpace(c) == c = " "

\* str.lower() on the model's alphabet
LowerChar(c) ==
    CASE c = "A" -> "a"
      [] c = "C" -> "c"
      [] c = "E" -> "e"
      [] c = "F" -> "f"
      [] c = "R" -> "r"
      [] c = "S" -> "s"
      [] c = "T" -> "t"
      [] c = "U" -> "u"
      [] c = "Y" -> "y"
      [] OTHER -> c

Lower(s) == [i \in 1..Len(s) |-> LowerChar(s[i])]

RECURSIVE LStripSpace(_)
LStripSpace(s) ==
    IF s # <<>> /\ IsSpace(Head(s)) THEN LStripSpace(Tail(s)) ELSE s

RECURSIVE RStripSpace(_)
RStripSpace(s) ==
    IF s # <<>> /\ IsSpace(s[Len(s)]) THEN RStripSpace(SubSeq(s, 1, Len(s) - 1)) ELSE s

\* str.strip()
Strip(s) == RStripSpace(LStripSpace(s))

\* str.lstrip("#"): every leading '#' is removed
RECURSIVE LStripHash(_)
LStripHash(s) ==
    IF s # <<>> /\ Head(s) = "#" THEN LStripHash(Tail(s)) ELSE s

\* a tag that loses its '#' prefix but keeps its case and blanks: a plausible slip
CleanTagNoLower(s) == LStripHash(Strip(s))

\* str(tag).strip().lstrip("#").lower()
CleanTag(s) == Lower(LStripHash(Strip(s)))

\* the characters of a string, as Python's iteration over a str yields them
Chars(s) == [i \in 1..Len(s) |-> <<s[i]>>]

(* ------------------------------------------------------------------ *)
(* ast.literal_eval on the fragment the hashtag column uses, over the *)
(* alphabet a c A C # ' , [ ] and the blank: a list of single-quoted  *)
(* strings, one single-quoted string, or a bare tuple of them.        *)
(* Anything else raises (ValueError or SyntaxError); containers       *)
(* nested in containers are outside the fragment.                     *)
(* Result: [kind |-> "list" | "tuple", l |-> items],                  *)
(* [kind |-> "str", s |-> text] or [kind |-> "error"].                *)
(* ------------------------------------------------------------------ *)
EvalError == [kind |-> "error", l |-> <<>>, s |-> <<>>]

\* position of the first "'" at or after i, or 0
RECURSIVE FindQuote(_, _)
FindQuote(s, i) ==
    IF i > Len(s) THEN 0
    ELSE IF s[i] = "'" THEN i
    ELSE FindQuote(s, i + 1)

\* first position at or after i that holds no blank (Len(s)+1 at the end)
RECURSIVE SkipSpace(_, _)
SkipSpace(s, i) ==
    IF i <= Len(s) /\ IsSpace(s[i]) THEN SkipSpace(s, i + 1) ELSE i

\* the expression ends at i: only blanks, then the end or a comment
AtEnd(s, i) ==
    LET j == SkipSpace(s, i)
    IN  j > Len(s) \/ s[j] = "#"

\* position of the first triple quote at or after i, or 0
RECURSIVE FindTriple(_, _)
FindTriple(s, i) ==
    IF i + 2 > Len(s) THEN 0
    ELSE IF s[i] = "'" /\ s[i + 1] = "'" /\ s[i + 2] = "'" THEN i
    ELSE FindTriple(s, i + 1)

\* the string literal that opens at position i (s[i] is a quote): its text and
\* the position after it; ok is FALSE when it is not closed. Three quotes open
\* a triple-quoted literal.
ReadStr(s, i) ==
    IF i + 2 <= Len(s) /\ s[i + 1] = "'" /\ s[i + 2] = "'"
    THEN LET j == FindTriple(s, i + 3)
         IN  [ok |-> j # 0, text |-> SubSeq(s, i + 3, j - 1), next |-> j + 3]
    ELSE LET j == FindQuote(s, i + 1)
         IN  [ok |-> j # 0, text |-> SubSeq(s, i + 1, j - 1), next |-> j + 1]

\* acc with str appended as a new element (st = "item") or glued to the last
\* element (st = "sep": adjacent string literals are concatenated)
AddStr(acc, str, st) ==
    IF st = "item" THEN Append(acc, str)
    ELSE [acc EXCEPT ![Len(acc)] = acc[Len(acc)] \o str]

\* Elements of a bracketed list from position i0.
\* st = "item": an element or the closing bracket is expected;
\* st = "sep": a comma, an adjacent string or the closing bracket is expected.
RECURSIVE ParseItems(_, _, _, _)
ParseItems(s, i0, acc, st) ==
    LET i == SkipSpace(s, i0)
    IN  IF i > Len(s) THEN EvalError
        ELSE IF s[i] = "]"
             THEN IF AtEnd(s, i + 1)
                  THEN [kind |-> "list", l |-> acc, s |-> <<>>]
                  ELSE EvalError
        ELSE IF s[i] = "'"
             THEN LET r == ReadStr(s, i)
                  IN  IF ~r.ok THEN EvalError
                      ELSE ParseItems(s, r.next, AddStr(acc, r.text, st), "sep")
        ELSE IF s[i] = "," /\ st = "sep"
             THEN ParseItems(s, i + 1, acc, "item")
        ELSE EvalError

\* A top-level expression without brackets: one string (no comma seen) or a
\* bare tuple of strings.
RECURSIVE ParseTop(_, _, _, _, _)
ParseTop(s, i0, acc, st, commas) ==
    LET i == SkipSpace(s, i0)
    IN  IF AtEnd(s, i)
        THEN IF acc = <<>> THEN EvalError
             ELSE IF commas = 0 THEN [kind |-> "str", l |-> <<>>, s |-> acc[1]]
             ELSE [kind |-> "tuple", l |-> acc, s |-> <<>>]
        ELSE IF s[i] = "'"
             THEN LET r == ReadStr(s, i)
                  IN  IF ~r.ok THEN EvalError
                      ELSE ParseTop(s, r.next, AddStr(acc, r.text, st), "sep", commas)
        ELSE IF s[i] = "," /\ st = "sep"
             THEN ParseTop(s, i + 1, acc, "item", commas + 1)
        ELSE EvalError

literal_eval(s) ==
    LET i == SkipSpace(s, 1)
    IN  IF i > Len(s) THEN EvalError
        ELSE IF s[i] = "[" THEN ParseItems(s, i + 1, <<>>, "item")
        ELSE ParseTop(s, i, <<>>, "item", 0)

(* ------------------------------------------------------------------ *)
(* Input records: the 13 fields of a cleaned row                      *)
(* ------------------------------------------------------------------ *)
\* a hashtags cell holding text (the column as pandas reads it from the file)
StrTags(chars) == [kind |-> "str", s |-> chars, l |-> <<>>]
\* a hashtags cell holding a list of strings (the column after DataPrecleaner)
ListTags(items) == [kind |-> "list", s |-> <<>>, l |-> items]

Row(name, loc, descr, created, followers, friends, favourites, verified, date, text, hashtags, source, retweet) ==
    [user_name |-> name, user_location |-> loc, user_description |-> descr,
     user_created |-> created, user_followers |-> followers,
     user_friends |-> friends, user_favourites |-> favourites,
     user_verified |-> verified, date |-> date, text |-> text,
     hashtags |-> hashtags, source |-> source, is_retweet |-> retweet]

\* rows whose hashtags cell is text, as clean_csv_data hands them to run():
\*   "['A']", "[]", "#a A", "[]", "[]"
RowA1 ==
    Row("alice", "Warsaw", "trader", "2019", 10, 5, 7, FALSE,
        "d1", "t1", StrTags(<<"[", "'", "A", "'", "]">>), "web", FALSE)
RowA2 ==
    Row("alice", "Krakow", "hodler", "2020", 11, 6, 8, TRUE,
        "d2", "t2", StrTags(<<"[", "]">>), "app", TRUE)
RowB1 ==
    Row("bob", "Warsaw", "trader", "2019", 10, 5, 7, FALSE,
        "d1", "t1", StrTags(<<"#", "a", " ", "A">>), "web", FALSE)
RowA3 ==
    Row("alice", "Warsaw", "trader", "2019", 10, 5, 7, FALSE,
        "d2", "t3", StrTags(<<"[", "]">>), "web", FALSE)

\* rows whose hashtags cell is a list: [" #a", "A", "#", ""] and []
RowB2 ==
    Row("bob", "Krakow", "hodler", "2020", 11, 6, 8, TRUE,
        "d2", "t2", ListTags(<< <<" ", "#", "a">>, <<"A">>, <<"#">>, <<>> >>), "app", TRUE)
RowC1 ==
    Row("carol", "Warsaw", "trader", "2019", 10, 5, 7, FALSE,
        "d1", "t1", ListTags(<<>>), "web", FALSE)

RowC2 ==
    Row("carol", "Krakow", "hodler", "2020", 11, 6, 8, TRUE,
        "d1", "t2", StrTags(<<"[", "]">>), "app", FALSE)

CsvRows == {RowA1, RowA2, RowB1, RowA3, RowC2}
FrameRows == {RowA1, RowA2, RowB2, RowC1}

\* all sequences over S of length at most n
SeqsUpTo(S, n) == UNION { [1..k -> S] : k \in 0..n }

\* df.drop_duplicates() has run: no two rows of the batch are equal
NoDuplicates(b) == \A i, j \in 1..Len(b) : i # j => b[i] # b[j]

\* the cleaned batches run() can iterate over
CsvBatches == { b \in SeqsUpTo(CsvRows, MaxRows) : NoDuplicates(b) }

\* the frames a caller can hand to the managers' load_data_from_dataframe
FrameBatches == SeqsUpTo(FrameRows, MaxFrame)
\* the document loader is fed one row of each shape of the hashtags cell
DocRows == {RowA1, RowB2, RowC1}
DocBatches == SeqsUpTo(DocRows, MaxDocs)

(* ------------------------------------------------------------------ *)
(* The relational store: tables as sets of rows (DDL)                 *)
(* ------------------------------------------------------------------ *)
NoTables ==
    [exists |-> FALSE, users |-> {}, sources |-> {}, tweets |-> {},
     hashtags |-> {}, tweet_hashtags |-> <<>>]

\* CREATE TABLE IF NOT EXISTS ...: an existing schema is left alone
DDL(d) == IF d.exists THEN d ELSE [NoTables EXCEPT !.exists = TRUE]

\* the SERIAL / BIGSERIAL counters of the four id columns (last value drawn)
NoSeq == [users |-> 0, sources |-> 0, tweets |-> 0, hashtags |-> 0]

\* user row built from the statement's parameters
UserRow(id, row) ==
    [id |-> id, user_name |-> row.user_name, user_location |-> row.user_location,
     user_description |-> row.user_description, user_created |-> row.user_created,
     user_followers |-> row.user_followers, user_friends |-> row.user_friends,
     user_favourites |-> row.user_favourites, user_verified |-> row.user_verified]

\* INSERT without the ON CONFLICT clause on a table without the UNIQUE
\* constraint: a second row for the same user_name
INSERT_USER_always(users, id, row) ==
    [table |-> users \cup {UserRow(id, row)}, ret |-> id]

\* ON CONFLICT DO UPDATE that forgets one column of the SET list
INSERT_USER_stale(users, id, row) ==
    IF \E u \in users : u.user_name = row.user_name
    THEN LET old == CHOOSE u \in users : u.user_name = row.user_name
             new == [UserRow(old.id, row) EXCEPT !.user_verified = old.user_verified]
         IN  [table |-> (users \ {old}) \cup {new}, ret |-> old.id]
    ELSE [table |-> users \cup {UserRow(id, row)}, ret |-> id]

\* INSERT ... ON CONFLICT (user_name) DO UPDATE SET ... RETURNING id
\* id is the value nextval() drew for the proposed row
INSERT_USER(users, id, row) ==
    IF \E u \in users : u.user_name = row.user_name
    THEN LET old == CHOOSE u \in users : u.user_name = row.user_name
         IN  [table |-> (users \ {old}) \cup {UserRow(old.id, row)}, ret |-> old.id]
    ELSE [table |-> users \cup {UserRow(id, row)}, ret |-> id]

\* SELECT id FROM sources WHERE name=%s  (the ids of the matching rows)
GET_SOURCE_ID(sources, name) == { s.id : s \in { x \in sources : x.name = name } }

\* INSERT without the ON CONFLICT clause on a table without the UNIQUE
\* constraint: the row is always added and its id returned
INSERT_SOURCE_plain(sources, id, name) ==
    [table |-> sources \cup {[id |-> id, name |-> name]}, ret |-> {id}]

\* INSERT INTO sources(name) ... ON CONFLICT (name) DO NOTHING RETURNING id
\* ret: the set of returned ids (empty when the insert did nothing)
INSERT_SOURCE(sources, id, name) ==
    IF \E s \in sources : s.name = name
    THEN [table |-> sources, ret |-> {}]
    ELSE [table |-> sources \cup {[id |-> id, name |-> name]}, ret |-> {id}]

\* SELECT id FROM hashtags WHERE tag=%s
GET_HASHTAG_ID(hashtags, tag) == { h.id : h \in { x \in hashtags : x.tag = tag } }

\* INSERT INTO hashtags(tag) ... ON CONFLICT (tag) DO NOTHING RETURNING id
INSERT_HASHTAG(hashtags, id, tag) ==
    IF \E h \in hashtags : h.tag = tag
    THEN [table |-> hashtags, ret |-> {}]
    ELSE [table |-> hashtags \cup {[id |-> id, tag |-> tag]}, ret |-> {id}]

\* the id column of a table
Ids(table) == { x.id : x \in table }

\* Python's None / SQL NULL in an id column
None == 0

\* an INSERT whose user_id parameter is not the caller's: the row points at
\* the oldest user
INSERT_TWEET_firstuser(d, id, uid, row, sid) ==
    IF uid \in Ids(d.users) /\ (sid = None \/ sid \in Ids(d.sources))
    THEN [table |-> d.tweets \cup
                      {[id |-> id,
                        user_id |-> CHOOSE x \in Ids(d.users) : \A y \in Ids(d.users) : x <= y,
                        date |-> row.date, text |-> row.text,
                        source_id |-> sid, is_retweet |-> row.is_retweet]},
          ok |-> TRUE]
    ELSE [table |-> d.tweets, ok |-> FALSE]

\* INSERT INTO tweets(...) VALUES (...) RETURNING id
\* ok is FALSE when a REFERENCES constraint rejects the row
INSERT_TWEET(d, id, uid, row, sid) ==
    IF uid \in Ids(d.users) /\ (sid = None \/ sid \in Ids(d.sources))
    THEN [table |-> d.tweets \cup
                      {[id |-> id, user_id |-> uid, date |-> row.date, text |-> row.text,
                        source_id |-> sid, is_retweet |-> row.is_retweet]},
          ok |-> TRUE]
    ELSE [table |-> d.tweets, ok |-> FALSE]

\* the rows of the link table (kept as a sequence: a heap of rows) for one key
LinkRows(links, tid, hid2) ==
    { k \in 1..Len(links) : links[k].tweet_id = tid /\ links[k].hashtag_id = hid2 }

\* a plain INSERT into a table without the primary key: the row is added again
INSERT_TWEET_HASHTAG_plain(d, tid, hid2) ==
    IF tid \in Ids(d.tweets) /\ hid2 \in Ids(d.hashtags)
    THEN [table |-> Append(d.tweet_hashtags, [tweet_id |-> tid, hashtag_id |-> hid2]),
          ok |-> TRUE]
    ELSE [table |-> d.tweet_hashtags, ok |-> FALSE]

\* INSERT INTO tweet_hashtags(tweet_id, hashtag_id) VALUES (..) ON CONFLICT DO NOTHING
\* ok is FALSE when a REFERENCES constraint rejects the row
INSERT_TWEET_HASHTAG(d, tid, hid2) ==
    IF tid \in Ids(d.tweets) /\ hid2 \in Ids(d.hashtags)
    THEN [table |-> IF LinkRows(d.tweet_hashtags, tid, hid2) # {}
                    THEN d.tweet_hashtags
                    ELSE Append(d.tweet_hashtags, [tweet_id |-> tid, hashtag_id |-> hid2]),
          ok |-> TRUE]
    ELSE [table |-> d.tweet_hashtags, ok |-> FALSE]

(* ------------------------------------------------------------------ *)
(* The document built for one row                                     *)
(* ------------------------------------------------------------------ *)
\* the elements h of q for which str(h).strip() is not empty, in order
RECURSIVE NonBlank(_)
NonBlank(q) ==
    IF q = <<>> THEN <<>>
    ELSE IF Strip(Head(q)) # <<>> THEN <<Head(q)>> \o NonBlank(Tail(q))
    ELSE NonBlank(Tail(q))

\* [str(h).strip().lstrip("#").lower() for h in hashtags if str(h).strip()]
CleanList(q) ==
    LET kept == NonBlank(q)
    IN  [k \in 1..Len(kept) |-> CleanTag(kept[k])]

\* Python's None in a text field of a document
NoneText == "<None>"

Document(row, tags) ==
    [user |-> [user_name |-> row.user_name, user_location |-> row.user_location,
               user_description |-> row.user_description,
               user_created |-> row.user_created,
               user_followers |-> row.user_followers,
               user_friends |-> row.user_friends,
               user_favourites |-> row.user_favourites,
               user_verified |-> row.user_verified],
     date |-> row.date, text |-> row.text, hashtags |-> tags,
     source |-> IF row.source = "" THEN NoneText ELSE row.source,
     is_retweet |-> row.is_retweet]

\* what `for h in (row.get("hashtags") or [])` walks over in main.py: the
\* elements of a list, the characters of a string
IterCell(cell) == IF cell.kind = "str" THEN Chars(cell.s) ELSE cell.l

\* main.build_mongo_doc
build_mongo_doc(row) == Document(row, CleanList(IterCell(row.hashtags)))

(* ------------------------------------------------------------------ *)
(* State                                                              *)
(* ------------------------------------------------------------------ *)
VARIABLES
    rows,        \* the cleaned batch being loaded (df_cleaned / df)
    batch_size,  \* BATCH_SIZE / batch_size
    runs,        \* how many times the entry point has been started
    pc,          \* position in the entry point being executed
    total,       \* records processed so far by the loop
    user_id, source_id, tweet_id, hashtag_id,   \* locals of the loop body
    tagq,        \* the hashtags of the current row still to be walked
    db,          \* the tables as the connection sees them (open transaction)
    durable,     \* the tables as committed
    seq,         \* the id sequences (not transactional)
    mongo_ops,   \* pending InsertOne operations
    col,         \* the document collection: documents with their _id
    indexes,     \* whether the collection's indexes exist
    oid,         \* last _id handed out
    bulks,       \* history: the operation lists given to bulk_write, in order
    ncommits,    \* history: number of conn.commit() calls
    upserts,     \* history: the upsert_user calls, [row, ret]
    origin,      \* history: which row each tweets.id was inserted for
    link_calls,  \* history: the (tweet_id, hashtag_id) pairs given to link_tweet_hashtag
    writers,     \* the concurrent resolve-or-create callers (race scenario)
    raw,         \* the frame handed to a cleaning or normalizing pass
    out,         \* the frame (or the records) the pass has produced
    stage,       \* position in the pass
    removed,     \* removed_count of clean_csv_data
    arg,         \* the value handed to a field normalizer
    res          \* what the field normalizer returned (or that it raised)

vars ==
    <<rows, batch_size, runs, pc, total, user_id, source_id, tweet_id, hashtag_id,
      tagq, db, durable, seq, mongo_ops, col, indexes, oid, bulks, ncommits,
      upserts, origin, link_calls, writers, raw, out, stage, removed, arg, res>>

prep == <<raw, out, stage, removed, arg, res>>
input == <<rows, batch_size, writers, prep>>
locals == <<user_id, source_id, tweet_id, hashtag_id, tagq>>
mongo == <<mongo_ops, col, indexes, oid, bulks>>
hist == <<upserts, origin, link_calls>>

\* no cleaning or normalizing pass is being followed
PrepIdle ==
    /\ raw = <<>>
    /\ out = <<>>
    /\ stage = "idle"
    /\ removed = 0
    /\ arg = <<>>
    /\ res = <<>>

\* the row the loop body is working on
CurrentRow == rows[total + 1]

\* where the loop goes after n records: the next row, or the code after the loop
LoopHead(n, after) == IF n < Len(rows) THEN "upsert" ELSE after

(* ------------------------------------------------------------------ *)
(* PostgresManager methods, as steps of the (single) loading thread   *)
(* ------------------------------------------------------------------ *)
\* upsert_user: one statement, then conn.commit()
upsert_user ==
    /\ pc = "upsert"
    /\ db.exists
    /\ LET r == INSERT_USER(db.users, seq.users + 1, CurrentRow)
           after == [db EXCEPT !.users = r.table]
       IN  /\ db' = after
           /\ durable' = after
           /\ user_id' = r.ret
           /\ upserts' = Append(upserts, [row |-> CurrentRow, ret |-> r.ret])
    /\ seq' = [seq EXCEPT !.users = @ + 1]
    /\ ncommits' = ncommits + 1
    /\ pc' = "source"
    /\ UNCHANGED <<input, runs, total, source_id, tweet_id, hashtag_id, tagq, mongo,
                   origin, link_calls>>

\* get_or_create_source in one thread: lookup, insert when absent, lookup again
\* when the insert returned nothing. ret = {} stands for fetchone() = None.
ResolveSource(sources, last, name) ==
    LET found == GET_SOURCE_ID(sources, name)
        ins == INSERT_SOURCE(sources, last + 1, name)
    IN  IF found # {}
        THEN [table |-> sources, last |-> last, ret |-> found]
        ELSE IF ins.ret # {}
             THEN [table |-> ins.table, last |-> last + 1, ret |-> ins.ret]
             ELSE [table |-> ins.table, last |-> last + 1,
                   ret |-> GET_SOURCE_ID(ins.table, name)]

get_or_create_source ==
    /\ pc = "source"
    /\ db.exists
    /\ IF CurrentRow.source = ""
       THEN /\ source_id' = None
            /\ UNCHANGED <<db, seq>>
       ELSE LET r == ResolveSource(db.sources, seq.sources, CurrentRow.source)
            IN  /\ r.ret # {}
                /\ source_id' = CHOOSE x \in r.ret : TRUE
                /\ db' = [db EXCEPT !.sources = r.table]
                /\ seq' = [seq EXCEPT !.sources = r.last]
    /\ pc' = "tweet"
    /\ UNCHANGED <<input, runs, total, user_id, tweet_id, hashtag_id, tagq, durable,
                   mongo, ncommits, hist>>

\* insert_tweet: no commit
insert_tweet ==
    /\ pc = "tweet"
    /\ db.exists
    /\ LET r == INSERT_TWEET(db, seq.tweets + 1, user_id, CurrentRow, source_id)
       IN  /\ r.ok
           /\ db' = [db EXCEPT !.tweets = r.table]
    /\ seq' = [seq EXCEPT !.tweets = @ + 1]
    /\ tweet_id' = seq.tweets + 1
    /\ origin' = origin \cup {[id |-> seq.tweets + 1, row |-> total + 1, run |-> runs]}
    /\ pc' = "hashtags"
    /\ UNCHANGED <<input, runs, total, user_id, source_id, hashtag_id, tagq, durable,
                   mongo, ncommits, upserts, link_calls>>

\* the loop over the tags: an element that is empty after cleanup is skipped
skip_tag ==
    /\ pc = "tags"
    /\ tagq # <<>>
    /\ CleanTag(Head(tagq)) = <<>>
    /\ tagq' = Tail(tagq)
    /\ UNCHANGED <<input, runs, pc, total, user_id, source_id, tweet_id, hashtag_id,
                   db, durable, seq, mongo, ncommits, hist>>

ResolveHashtag(hashtags, last, tag) ==
    LET found == GET_HASHTAG_ID(hashtags, tag)
        ins == INSERT_HASHTAG(hashtags, last + 1, tag)
    IN  IF found # {}
        THEN [table |-> hashtags, last |-> last, ret |-> found]
        ELSE IF ins.ret # {}
             THEN [table |-> ins.table, last |-> last + 1, ret |-> ins.ret]
             ELSE [table |-> ins.table, last |-> last + 1,
                   ret |-> GET_HASHTAG_ID(ins.table, tag)]

get_or_create_hashtag ==
    /\ pc = "tags"
    /\ tagq # <<>>
    /\ CleanTag(Head(tagq)) # <<>>
    /\ db.exists
    /\ LET r == ResolveHashtag(db.hashtags, seq.hashtags, CleanTag(Head(tagq)))
       IN  /\ r.ret # {}
           /\ hashtag_id' = CHOOSE x \in r.ret : TRUE
           /\ db' = [db EXCEPT !.hashtags = r.table]
           /\ seq' = [seq EXCEPT !.hashtags = r.last]
    /\ pc' = "link"
    /\ UNCHANGED <<input, runs, total, user_id, source_id, tweet_id, tagq, durable,
                   mongo, ncommits, hist>>

link_tweet_hashtag ==
    /\ pc = "link"
    /\ db.exists
    /\ LET r == INSERT_TWEET_HASHTAG(db, tweet_id, hashtag_id)
       IN  /\ r.ok
           /\ db' = [db EXCEPT !.tweet_hashtags = r.table]
    /\ link_calls' = Append(link_calls, [tweet_id |-> tweet_id, hashtag_id |-> hashtag_id])
    /\ tagq' = Tail(tagq)
    /\ pc' = "tags"
    /\ UNCHANGED <<input, runs, total, user_id, source_id, tweet_id, hashtag_id, durable,
                   seq, mongo, ncommits, upserts, origin>>

\* A statement of the record's write sequence raises. Nothing in run() or in
\* the managers catches it: the entry point ends, the connection is dropped
\* and the server discards the open transaction.
InWrite ==
    \/ pc \in {"upsert", "source", "tweet", "link"}
    \/ pc = "tags" /\ tagq # <<>> /\ CleanTag(Head(tagq)) # <<>>

write_fails ==
    /\ InWrite
    /\ pc' = "crashed"
    /\ db' = durable
    /\ UNCHANGED <<input, runs, total, locals, durable, seq, mongo, ncommits,
                   hist>>

(* ------------------------------------------------------------------ *)
(* The coordinator: run() of src/main.py                              *)
(* ------------------------------------------------------------------ *)
\* conn.commit()
Committed(d) == d

\* a bulk write that stops after its first operation
BulkWrite_first(c, last, ops) ==
    c \cup { [_id |-> last + k, doc |-> ops[k]] : k \in 1..1 }

\* a boundary test that is off by one
AtBoundary_late(n, size) == n % (size + 1) = 0

\* total % BATCH_SIZE == 0
AtBoundary(n, size) == n % size = 0

\* a bulk write that replaces a stored document equal to one it writes
BulkWrite_replace(c, last, ops) ==
    { d \in c : \A k \in 1..Len(ops) : d.doc # ops[k] }
    \cup { [_id |-> last + k, doc |-> ops[k]] : k \in 1..Len(ops) }

\* col.bulk_write(ops, ordered=False): every operation inserts its document
\* under a fresh _id
BulkWrite(c, last, ops) ==
    c \cup { [_id |-> last + k, doc |-> ops[k]] : k \in 1..Len(ops) }

\* a clearing that drops the tables and leaves the collection
clear_databases_keepcol ==
    /\ pc = "clear"
    /\ db' = NoTables
    /\ durable' = NoTables
    /\ seq' = NoSeq
    /\ ncommits' = ncommits + 1
    /\ indexes' = FALSE
    /\ upserts' = <<>>
    /\ origin' = {}
    /\ link_calls' = <<>>
    /\ pc' = "init"
    /\ UNCHANGED <<input, runs, total, locals, mongo_ops, col, oid, bulks>>

\* clear_databases: the five tables are dropped (with their sequences), the
\* drop is committed, the collection is dropped
clear_databases ==
    /\ pc = "clear"
    /\ db' = NoTables
    /\ durable' = NoTables
    /\ seq' = NoSeq
    /\ ncommits' = ncommits + 1
    /\ col' = {}
    /\ indexes' = FALSE
    /\ upserts' = <<>>
    /\ origin' = {}
    /\ link_calls' = <<>>
    /\ pc' = "init"
    /\ UNCHANGED <<input, runs, total, locals, mongo_ops, oid, bulks>>

\* pg.init_schema(); mg.init_indexes(); then the loop's locals are set
run_init ==
    /\ pc = "init"
    /\ db' = DDL(db)
    /\ durable' = Committed(DDL(db))
    /\ ncommits' = ncommits + 1
    /\ indexes' = TRUE
    /\ mongo_ops' = <<>>
    /\ total' = 0
    /\ pc' = LoopHead(0, "final_pg")
    /\ UNCHANGED <<input, runs, locals, seq, col, oid, bulks, hist>>

\* for tag in (row.get("hashtags") or [])
run_hashtags ==
    /\ pc = "hashtags"
    /\ tagq' = IterCell(CurrentRow.hashtags)
    /\ pc' = "tags"
    /\ UNCHANGED <<input, runs, total, user_id, source_id, tweet_id, hashtag_id,
                   db, durable, seq, mongo, ncommits, hist>>

\* an append whose document takes its user sub-object from the first record
\* of the same user
run_append_firstuser ==
    /\ pc = "tags"
    /\ tagq = <<>>
    /\ LET first == rows[CHOOSE k \in 1..Len(rows) :
                           /\ rows[k].user_name = CurrentRow.user_name
                           /\ \A j \in 1..(k - 1) : rows[j].user_name # CurrentRow.user_name]
       IN  mongo_ops' = Append(mongo_ops, [build_mongo_doc(CurrentRow) EXCEPT
                                             !.user = build_mongo_doc(first).user])
    /\ total' = total + 1
    /\ pc' = IF AtBoundary(total + 1, batch_size) THEN "flush_pg"
             ELSE LoopHead(total + 1, "final_pg")
    /\ UNCHANGED <<input, runs, locals, db, durable, seq, col, indexes, oid, bulks,
                   ncommits, hist>>

\* mongo_ops.append(InsertOne(build_mongo_doc(row))); total += 1
run_append ==
    /\ pc = "tags"
    /\ tagq = <<>>
    /\ mongo_ops' = Append(mongo_ops, build_mongo_doc(CurrentRow))
    /\ total' = total + 1
    /\ pc' = IF AtBoundary(total + 1, batch_size) THEN "flush_pg"
             ELSE LoopHead(total + 1, "final_pg")
    /\ UNCHANGED <<input, runs, locals, db, durable, seq, col, indexes, oid, bulks,
                   ncommits, hist>>

\* a flush at a batch boundary that leaves the transaction open
run_flush_postgres_nocommit ==
    /\ pc = "flush_pg"
    /\ pc' = "flush_mg"
    /\ UNCHANGED <<input, runs, total, locals, db, durable, seq, mongo, ncommits, hist>>

\* flush_postgres(pg) at a batch boundary
run_flush_postgres ==
    /\ pc = "flush_pg"
    /\ durable' = Committed(db)
    /\ ncommits' = ncommits + 1
    /\ pc' = "flush_mg"
    /\ UNCHANGED <<input, runs, total, locals, db, seq, mongo, hist>>

\* inserted = flush_mongo(mg, mongo_ops); mongo_ops.clear()
run_flush_mongo ==
    /\ pc = "flush_mg"
    /\ IF mongo_ops # <<>>
       THEN /\ col' = BulkWrite(col, oid, mongo_ops)
            /\ oid' = oid + Len(mongo_ops)
            /\ bulks' = Append(bulks, mongo_ops)
       ELSE UNCHANGED <<col, oid, bulks>>
    /\ mongo_ops' = <<>>
    /\ pc' = LoopHead(total, "final_pg")
    /\ UNCHANGED <<input, runs, total, locals, db, durable, seq, indexes, ncommits,
                   hist>>

\* the final flush_postgres(pg)
run_final_postgres ==
    /\ pc = "final_pg"
    /\ durable' = Committed(db)
    /\ ncommits' = ncommits + 1
    /\ pc' = "final_mg"
    /\ UNCHANGED <<input, runs, total, locals, db, seq, mongo, hist>>

\* if mongo_ops: flush_mongo(...); mongo_ops.clear()
run_final_mongo ==
    /\ pc = "final_mg"
    /\ IF mongo_ops # <<>>
       THEN /\ col' = BulkWrite(col, oid, mongo_ops)
            /\ oid' = oid + Len(mongo_ops)
            /\ bulks' = Append(bulks, mongo_ops)
            /\ mongo_ops' = <<>>
       ELSE UNCHANGED <<col, oid, bulks, mongo_ops>>
    /\ pc' = "done"
    /\ UNCHANGED <<input, runs, total, locals, db, durable, seq, indexes, ncommits,
                   hist>>

\* run() is started again on the same file, with fresh connections
run_again ==
    /\ pc = "done"
    /\ runs < MaxRuns
    /\ runs' = runs + 1
    /\ db' = durable
    /\ user_id' = None /\ source_id' = None /\ tweet_id' = None /\ hashtag_id' = None
    /\ tagq' = <<>>
    /\ mongo_ops' = <<>>
    /\ bulks' = <<>>
    /\ total' = 0
    /\ ncommits' = 0
    /\ pc' = "clear"
    /\ UNCHANGED <<input, durable, seq, col, indexes, oid, hist>>

Init ==
    /\ rows \in CsvBatches
    /\ batch_size \in 1..MaxBatch
    /\ runs = 1
    /\ pc = "clear"
    /\ total = 0
    /\ user_id = None /\ source_id = None /\ tweet_id = None /\ hashtag_id = None
    /\ tagq = <<>>
    /\ db = NoTables
    /\ durable = NoTables
    /\ seq = NoSeq
    /\ mongo_ops = <<>>
    /\ col = {}
    /\ indexes = FALSE
    /\ oid = 0
    /\ bulks = <<>>
    /\ ncommits = 0
    /\ upserts = <<>>
    /\ origin = {}
    /\ link_calls = <<>>
    /\ writers = <<>>
    /\ PrepIdle

Next ==
    \/ clear_databases
    \/ run_init
    \/ upsert_user
    \/ get_or_create_source
    \/ insert_tweet
    \/ run_hashtags
    \/ skip_tag
    \/ get_or_create_hashtag
    \/ link_tweet_hashtag
    \/ run_append
    \/ run_flush_postgres
    \/ run_flush_mongo
    \/ run_final_postgres
    \/ run_final_mongo
    \/ write_fails
    \/ run_again

Spec == Init /\ [][Next]_vars

(* ------------------------------------------------------------------ *)
(* A stop requested while run() is loading. run() installs no signal  *)
(* handler and reads no stop flag: the only stop request the process  *)
(* takes is SIGINT, which Python raises as KeyboardInterrupt in the   *)
(* main thread between any two of its steps. Nothing catches it, so   *)
(* run() ends there; the connection is dropped with its open          *)
(* transaction and the pending operation list is never written.       *)
(* ------------------------------------------------------------------ *)
InLoad ==
    pc \in {"upsert", "source", "tweet", "hashtags", "tags", "link", "flush_pg",
            "flush_mg", "final_pg", "final_mg"}

keyboard_interrupt ==
    /\ InLoad
    /\ pc' = "interrupted"
    /\ db' = durable
    /\ UNCHANGED <<input, runs, total, locals, durable, seq, mongo, ncommits, hist>>

NextStop ==
    \/ Next
    \/ keyboard_interrupt

SpecStop == Init /\ [][NextStop]_vars

(* ------------------------------------------------------------------ *)
(* PostgresManager.load_data_from_dataframe, called MaxRuns times on  *)
(* the same frame without clearing the store                          *)
(* ------------------------------------------------------------------ *)
\* hashtags = row_dict.get("hashtags") or []; a string goes through
\* ast.literal_eval, and through `except: hashtags = []` when that raises.
\* The loop then walks the value: the elements of a list or tuple, the
\* characters of a string.
ParsedCell(cell) ==
    IF cell.kind = "list" THEN cell.l
    ELSE IF cell.s = <<>> THEN <<>>
    ELSE LET v == literal_eval(cell.s)
         IN  CASE v.kind = "error" -> <<>>
               [] v.kind = "str" -> Chars(v.s)
               [] OTHER -> v.l

\* self.init_schema(); total = 0
pg_load_init ==
    /\ pc = "pg_start"
    /\ db' = DDL(db)
    /\ durable' = Committed(DDL(db))
    /\ ncommits' = ncommits + 1
    /\ total' = 0
    /\ pc' = LoopHead(0, "pg_final")
    /\ UNCHANGED <<input, runs, locals, seq, mongo, hist>>

pg_load_hashtags ==
    /\ pc = "hashtags"
    /\ tagq' = ParsedCell(CurrentRow.hashtags)
    /\ pc' = "tags"
    /\ UNCHANGED <<input, runs, total, user_id, source_id, tweet_id, hashtag_id,
                   db, durable, seq, mongo, ncommits, hist>>

\* total += 1; if total % batch_size == 0: self.commit()
pg_load_count ==
    /\ pc = "tags"
    /\ tagq = <<>>
    /\ total' = total + 1
    /\ IF AtBoundary(total + 1, batch_size)
       THEN /\ durable' = Committed(db)
            /\ ncommits' = ncommits + 1
       ELSE UNCHANGED <<durable, ncommits>>
    /\ pc' = LoopHead(total + 1, "pg_final")
    /\ UNCHANGED <<input, runs, locals, db, seq, mongo, hist>>

\* the final self.commit()
pg_load_final ==
    /\ pc = "pg_final"
    /\ durable' = Committed(db)
    /\ ncommits' = ncommits + 1
    /\ pc' = "pg_done"
    /\ UNCHANGED <<input, runs, total, locals, db, seq, mongo, hist>>

\* the method is called again on the same frame
pg_load_again ==
    /\ pc = "pg_done"
    /\ runs < MaxRuns
    /\ runs' = runs + 1
    /\ pc' = "pg_start"
    /\ UNCHANGED <<input, total, locals, db, durable, seq, mongo, ncommits, hist>>

InitPg ==
    /\ rows \in FrameBatches
    /\ batch_size \in 1..MaxBatch
    /\ runs = 1
    /\ pc = "pg_start"
    /\ total = 0
    /\ user_id = None /\ source_id = None /\ tweet_id = None /\ hashtag_id = None
    /\ tagq = <<>>
    /\ db = NoTables
    /\ durable = NoTables
    /\ seq = NoSeq
    /\ mongo_ops = <<>>
    /\ col = {}
    /\ indexes = FALSE
    /\ oid = 0
    /\ bulks = <<>>
    /\ ncommits = 0
    /\ upserts = <<>>
    /\ origin = {}
    /\ link_calls = <<>>
    /\ writers = <<>>
    /\ PrepIdle

NextPg ==
    \/ pg_load_init
    \/ upsert_user
    \/ get_or_create_source
    \/ insert_tweet
    \/ pg_load_hashtags
    \/ skip_tag
    \/ get_or_create_hashtag
    \/ link_tweet_hashtag
    \/ pg_load_count
    \/ pg_load_final
    \/ write_fails
    \/ pg_load_again

SpecPg == InitPg /\ [][NextPg]_vars

(* ------------------------------------------------------------------ *)
(* MongoManager.load_data_from_dataframe, called MaxRuns times on the *)
(* same frame without clearing the store                              *)
(* ------------------------------------------------------------------ *)
\* MongoManager._build_document
build_document(row) == Document(row, CleanList(ParsedCell(row.hashtags)))

\* self.init_indexes(); mongo_ops = []; total = 0
mg_load_init ==
    /\ pc = "mg_start"
    /\ indexes' = TRUE
    /\ mongo_ops' = <<>>
    /\ bulks' = <<>>
    /\ total' = 0
    /\ pc' = IF 0 < Len(rows) THEN "mg_row" ELSE "mg_final"
    /\ UNCHANGED <<input, runs, locals, db, durable, seq, col, oid, ncommits,
                   hist>>

\* one iteration: build, append, count, and at a batch boundary
\* bulk_write(mongo_ops, ordered=False); mongo_ops.clear()
mg_load_row ==
    /\ pc = "mg_row"
    /\ LET ops == Append(mongo_ops, build_document(CurrentRow))
       IN  IF AtBoundary(total + 1, batch_size)
           THEN /\ col' = BulkWrite(col, oid, ops)
                /\ oid' = oid + Len(ops)
                /\ bulks' = Append(bulks, ops)
                /\ mongo_ops' = <<>>
           ELSE /\ mongo_ops' = ops
                /\ UNCHANGED <<col, oid, bulks>>
    /\ total' = total + 1
    /\ pc' = IF total + 1 < Len(rows) THEN "mg_row" ELSE "mg_final"
    /\ UNCHANGED <<input, runs, locals, db, durable, seq, indexes, ncommits,
                   hist>>

\* if mongo_ops: bulk_write(mongo_ops, ordered=False)   (the list is not cleared)
mg_load_final ==
    /\ pc = "mg_final"
    /\ IF mongo_ops # <<>>
       THEN /\ col' = BulkWrite(col, oid, mongo_ops)
            /\ oid' = oid + Len(mongo_ops)
            /\ bulks' = Append(bulks, mongo_ops)
       ELSE UNCHANGED <<col, oid, bulks>>
    /\ pc' = "mg_done"
    /\ UNCHANGED <<input, runs, total, locals, db, durable, seq, mongo_ops, indexes,
                   ncommits, hist>>

mg_load_again ==
    /\ pc = "mg_done"
    /\ runs < MaxRuns
    /\ runs' = runs + 1
    /\ pc' = "mg_start"
    /\ UNCHANGED <<input, total, locals, db, durable, seq, mongo, ncommits, hist>>

InitMg ==
    /\ rows \in DocBatches
    /\ batch_size \in 1..MaxBatch
    /\ runs = 1
    /\ pc = "mg_start"
    /\ total = 0
    /\ user_id = None /\ source_id = None /\ tweet_id = None /\ hashtag_id = None
    /\ tagq = <<>>
    /\ db = NoTables
    /\ durable = NoTables
    /\ seq = NoSeq
    /\ mongo_ops = <<>>
    /\ col = {}
    /\ indexes = FALSE
    /\ oid = 0
    /\ bulks = <<>>
    /\ ncommits = 0
    /\ upserts = <<>>
    /\ origin = {}
    /\ link_calls = <<>>
    /\ writers = <<>>
    /\ PrepIdle

NextMg ==
    \/ mg_load_init
    \/ mg_load_row
    \/ mg_load_final
    \/ mg_load_again

SpecMg == InitMg /\ [][NextMg]_vars

(* ------------------------------------------------------------------ *)
(* Concurrent resolve-or-create: MaxWriters connections, each running *)
(* get_or_create_source or get_or_create_hashtag once, statement by   *)
(* statement, and then committing. Isolation is READ COMMITTED (the   *)
(* server default, which PostgresManager.__init__ leaves in place):   *)
(* a statement sees what is committed when it starts plus its own     *)
(* transaction's rows, and an INSERT that meets another transaction's *)
(* uncommitted row for the same unique key waits for that transaction *)
(* to end.                                                            *)
(* ------------------------------------------------------------------ *)
Writers == 1..MaxWriters

SourceNames == {"web", "app", ""}
TagNames == {<<"a">>, <<"c">>}

\* a caller of get_or_create_source(name) / get_or_create_hashtag(tag)
WriterStart(kind, name, tag, absent) ==
    [kind |-> kind, name |-> name, tag |-> tag, pc |-> "lookup", ret |-> None,
     own_sources |-> {}, own_hashtags |-> {},
     absent |-> absent,     \* history: no row for the key when the call starts
     missed |-> FALSE,      \* history: the first lookup found nothing
     relooked |-> FALSE]    \* history: the insert returned nothing

\* what the statements of connection w see
VisibleSources(w) == durable.sources \cup writers[w].own_sources
VisibleHashtags(w) == durable.hashtags \cup writers[w].own_hashtags

\* another open transaction holds an uncommitted row for the same unique key
SourceLocked(w) ==
    \E v \in Writers \ {w} : \E s \in writers[v].own_sources : s.name = writers[w].name
HashtagLocked(w) ==
    \E v \in Writers \ {w} : \E h \in writers[v].own_hashtags : h.tag = writers[w].tag

race_unchanged ==
    UNCHANGED <<rows, batch_size, runs, pc, total, locals, db, mongo, ncommits, hist,
                prep>>

\* if not name: return None; cur.execute(GET_SOURCE_ID); if source_id: return
race_source_lookup(w) ==
    /\ writers[w].kind = "source"
    /\ writers[w].pc = "lookup"
    /\ LET found == GET_SOURCE_ID(VisibleSources(w), writers[w].name)
       IN  writers' =
             IF writers[w].name = ""
             THEN [writers EXCEPT ![w].pc = "returned", ![w].ret = None]
             ELSE IF found # {}
             THEN [writers EXCEPT ![w].pc = "returned",
                                  ![w].ret = CHOOSE x \in found : TRUE]
             ELSE [writers EXCEPT ![w].pc = "insert", ![w].missed = TRUE]
    /\ UNCHANGED <<durable, seq>>
    /\ race_unchanged

\* cur.execute(INSERT_SOURCE); source = cur.fetchone(); if source: return
race_source_insert(w) ==
    /\ writers[w].kind = "source"
    /\ writers[w].pc = "insert"
    /\ ~SourceLocked(w)
    /\ LET ins == INSERT_SOURCE(VisibleSources(w), seq.sources + 1, writers[w].name)
       IN  writers' =
             IF ins.ret # {}
             THEN [writers EXCEPT ![w].pc = "returned",
                                  ![w].ret = CHOOSE x \in ins.ret : TRUE,
                                  ![w].own_sources = @ \cup (ins.table \ VisibleSources(w))]
             ELSE [writers EXCEPT ![w].pc = "relookup", ![w].relooked = TRUE]
    /\ seq' = [seq EXCEPT !.sources = @ + 1]
    /\ UNCHANGED durable
    /\ race_unchanged

\* cur.execute(GET_SOURCE_ID); return cur.fetchone()[0]
\* (subscripting None raises TypeError)
race_source_relookup(w) ==
    /\ writers[w].kind = "source"
    /\ writers[w].pc = "relookup"
    /\ LET found == GET_SOURCE_ID(VisibleSources(w), writers[w].name)
       IN  writers' =
             IF found # {}
             THEN [writers EXCEPT ![w].pc = "returned",
                                  ![w].ret = CHOOSE x \in found : TRUE]
             ELSE [writers EXCEPT ![w].pc = "error"]
    /\ UNCHANGED <<durable, seq>>
    /\ race_unchanged

race_hashtag_lookup(w) ==
    /\ writers[w].kind = "hashtag"
    /\ writers[w].pc = "lookup"
    /\ LET found == GET_HASHTAG_ID(VisibleHashtags(w), writers[w].tag)
       IN  writers' =
             IF found # {}
             THEN [writers EXCEPT ![w].pc = "returned",
                                  ![w].ret = CHOOSE x \in found : TRUE]
             ELSE [writers EXCEPT ![w].pc = "insert", ![w].missed = TRUE]
    /\ UNCHANGED <<durable, seq>>
    /\ race_unchanged

race_hashtag_insert(w) ==
    /\ writers[w].kind = "hashtag"
    /\ writers[w].pc = "insert"
    /\ ~HashtagLocked(w)
    /\ LET ins == INSERT_HASHTAG(VisibleHashtags(w), seq.hashtags + 1, writers[w].tag)
       IN  writers' =
             IF ins.ret # {}
             THEN [writers EXCEPT ![w].pc = "returned",
                                  ![w].ret = CHOOSE x \in ins.ret : TRUE,
                                  ![w].own_hashtags = @ \cup (ins.table \ VisibleHashtags(w))]
             ELSE [writers EXCEPT ![w].pc = "relookup", ![w].relooked = TRUE]
    /\ seq' = [seq EXCEPT !.hashtags = @ + 1]
    /\ UNCHANGED durable
    /\ race_unchanged

race_hashtag_relookup(w) ==
    /\ writers[w].kind = "hashtag"
    /\ writers[w].pc = "relookup"
    /\ LET found == GET_HASHTAG_ID(VisibleHashtags(w), writers[w].tag)
       IN  writers' =
             IF found # {}
             THEN [writers EXCEPT ![w].pc = "returned",
                                  ![w].ret = CHOOSE x \in found : TRUE]
             ELSE [writers EXCEPT ![w].pc = "error"]
    /\ UNCHANGED <<durable, seq>>
    /\ race_unchanged

\* the caller's conn.commit() after the call has returned
race_commit(w) ==
    /\ writers[w].pc = "returned"
    /\ durable' = [durable EXCEPT !.sources = @ \cup writers[w].own_sources,
                                  !.hashtags = @ \cup writers[w].own_hashtags]
    /\ writers' = [writers EXCEPT ![w].pc = "committed",
                                  ![w].own_sources = {}, ![w].own_hashtags = {}]
    /\ UNCHANGED seq
    /\ race_unchanged

\* the store before the calls: the schema, and possibly one source and one tag
RaceStores ==
    { [NoTables EXCEPT !.exists = TRUE, !.sources = s, !.hashtags = h] :
        s \in {{}, {[id |-> 1, name |-> "web"]}},
        h \in {{}, {[id |-> 1, tag |-> <<"a">>]}} }

RaceCalls(d) ==
    { WriterStart("source", n, <<>>, GET_SOURCE_ID(d.sources, n) = {}) : n \in SourceNames }
    \cup
    { WriterStart("hashtag", "", g, GET_HASHTAG_ID(d.hashtags, g) = {}) : g \in TagNames }

InitRace ==
    /\ durable \in RaceStores
    /\ db = durable
    /\ seq = [NoSeq EXCEPT !.sources = Cardinality(durable.sources),
                           !.hashtags = Cardinality(durable.hashtags)]
    /\ writers \in [Writers -> RaceCalls(durable)]
    /\ rows = <<>>
    /\ batch_size = 1
    /\ runs = 1
    /\ pc = "race"
    /\ total = 0
    /\ user_id = None /\ source_id = None /\ tweet_id = None /\ hashtag_id = None
    /\ tagq = <<>>
    /\ mongo_ops = <<>>
    /\ col = {}
    /\ indexes = FALSE
    /\ oid = 0
    /\ bulks = <<>>
    /\ ncommits = 0
    /\ upserts = <<>>
    /\ origin = {}
    /\ link_calls = <<>>
    /\ PrepIdle

NextRace ==
    \E w \in Writers :
        \/ race_source_lookup(w)
        \/ race_source_insert(w)
        \/ race_source_relookup(w)
        \/ race_hashtag_lookup(w)
        \/ race_hashtag_insert(w)
        \/ race_hashtag_relookup(w)
        \/ race_commit(w)

\* every call runs to its end and its caller commits: a thread that can take
\* a step eventually takes one
SpecRace == InitRace /\ [][NextRace]_vars /\ WF_vars(NextRace)

(* ------------------------------------------------------------------ *)
(* Values of a pandas frame as pd.read_csv hands them over, and the   *)
(* conversions the cleaning and normalizing code applies to them.     *)
(* A value is [kind, s, n, l]: s holds text (a sequence of            *)
(* characters), l the elements of a list, n a number. Floats are in tenths *)
(* (15 is 1.5), timestamps in half units (so that the median of two   *)
(* timestamps is a timestamp).                                        *)
(* ------------------------------------------------------------------ *)
NaN == [kind |-> "nan", s |-> <<>>, n |-> 0, l |-> <<>>]
NaT == [kind |-> "nat", s |-> <<>>, n |-> 0, l |-> <<>>]
PyNone == [kind |-> "none", s |-> <<>>, n |-> 0, l |-> <<>>]
Str(s) == [kind |-> "str", s |-> s, n |-> 0, l |-> <<>>]
PyFloat(tenths) == [kind |-> "float", s |-> <<>>, n |-> tenths, l |-> <<>>]
PyInt(i) == [kind |-> "int", s |-> <<>>, n |-> i, l |-> <<>>]
Bool(b) == [kind |-> "bool", s |-> <<>>, n |-> IF b THEN 1 ELSE 0, l |-> <<>>]
Timestamp(x) == [kind |-> "ts", s |-> <<>>, n |-> x, l |-> <<>>]
List(l) == [kind |-> "list", s |-> <<>>, n |-> 0, l |-> l]
\* the normalizer raised instead of returning
Raised == [kind |-> "raised", s |-> <<>>, n |-> 0, l |-> <<>>]

\* pd.isna(value) of a scalar
isna(v) == v.kind \in {"nan", "nat", "none"}

DigitChars == <<"0", "1", "2", "3", "4", "5", "6", "7", "8", "9">>
IsDigit(c) == \E d \in 1..10 : DigitChars[d] = c
DigitVal(c) == (CHOOSE d \in 1..10 : DigitChars[d] = c) - 1

\* the decimal digits of a natural number
RECURSIVE NatChars(_)
NatChars(k) ==
    IF k < 10 THEN <<DigitChars[k + 1]>>
    ELSE NatChars(k \div 10) \o <<DigitChars[(k % 10) + 1]>>

\* str(i) of an int
IntChars(i) == IF i < 0 THEN <<"-">> \o NatChars(0 - i) ELSE NatChars(i)

\* str(x) of a float with one decimal: "1.5", "-5.0"
FloatChars(x) ==
    LET a == IF x < 0 THEN 0 - x ELSE x
    IN  (IF x < 0 THEN <<"-">> ELSE <<>>)
        \o NatChars(a \div 10) \o <<".">> \o NatChars(a % 10)

\* str(value)
str(v) ==
    CASE v.kind = "str" -> v.s
      [] v.kind = "bool" -> IF v.n = 1 THEN <<"T", "r", "u", "e">>
                            ELSE <<"F", "a", "l", "s", "e">>
      [] v.kind = "int" -> IntChars(v.n)
      [] v.kind = "float" -> FloatChars(v.n)
      [] v.kind = "nan" -> <<"n", "a", "n">>
      [] v.kind = "nat" -> <<"N", "a", "T">>
      [] OTHER -> <<"N", "o", "n", "e">>

\* the value of a run of digits from position i: [next, n]
RECURSIVE ReadDigits(_, _, _)
ReadDigits(s, i, acc) ==
    IF i <= Len(s) /\ IsDigit(s[i])
    THEN ReadDigits(s, i + 1, acc * 10 + DigitVal(s[i]))
    ELSE [next |-> i, n |-> acc]

\* a decimal numeral: optional '-', digits, optionally '.' and digits (the
\* first decimal is kept). ok is FALSE for any other text. whole tells
\* whether the text is an integer numeral (no '.').
ParseNumber(s0) ==
    LET s == Strip(s0)
        neg == s # <<>> /\ Head(s) = "-"
        i0 == IF neg THEN 2 ELSE 1
        a == ReadDigits(s, i0, 0)
        dot == a.next <= Len(s) /\ s[a.next] = "."
        b == IF dot THEN ReadDigits(s, a.next + 1, 0) ELSE [next |-> a.next, n |-> 0]
        first == IF dot /\ a.next + 1 <= Len(s) /\ IsDigit(s[a.next + 1])
                 THEN DigitVal(s[a.next + 1]) ELSE 0
        digits == (a.next - i0) + (IF dot THEN b.next - (a.next + 1) ELSE 0)
        mag == a.n * 10 + first
    IN  [ok |-> digits > 0 /\ b.next = Len(s) + 1,
         whole |-> ~dot,
         n |-> IF neg THEN 0 - mag ELSE mag]

\* truncation of a float (in tenths) toward zero: int(x), astype(int)
Trunc(x) == IF x < 0 THEN 0 - ((0 - x) \div 10) ELSE x \div 10

\* pd.to_datetime(value, errors="coerce"): a text of digits is a date (its
\* number, in half units), any other text and a missing value give NaT
to_datetime(v) ==
    IF v.kind = "ts" THEN v
    ELSE IF v.kind = "str" /\ v.s # <<>> /\ \A i \in 1..Len(v.s) : IsDigit(v.s[i])
    THEN Timestamp(2 * ReadDigits(v.s, 1, 0).n)
    ELSE NaT

\* pd.Timestamp.utcnow(): later than every date of the input
utcnow == Timestamp(200)

\* pd.to_numeric(value, errors="coerce")
to_numeric(v) ==
    CASE v.kind = "float" -> v
      [] v.kind = "int" -> PyFloat(v.n * 10)
      [] v.kind = "str" -> (LET r == ParseNumber(v.s) IN IF r.ok THEN PyFloat(r.n) ELSE NaN)
      [] OTHER -> NaN

(* ------------------------------------------------------------------ *)
(* Field normalizers: DataPrecleaner.__to_bool / __parse_hashtags and *)
(* _parse_bool / _parse_list / the numeric and date lines of          *)
(* normalize_row                                                      *)
(* ------------------------------------------------------------------ *)
\* ('true', '1', 'yes', 'y', 't')
TrueWords ==
    { <<"t", "r", "u", "e">>, <<"1">>, <<"y", "e", "s">>, <<"y">>, <<"t">> }

\* a variant that tests the text without folding its case
to_bool_cased(value) ==
    IF isna(value) THEN Bool(FALSE)
    ELSE Bool(Strip(str(value)) \in TrueWords)

\* DataPrecleaner.__to_bool
to_bool(value) ==
    IF isna(value) THEN Bool(FALSE)
    ELSE Bool(Lower(Strip(str(value))) \in TrueWords)

\* _parse_bool
parse_bool(x) ==
    IF isna(x) THEN PyNone
    ELSE IF x.kind = "bool" THEN x
    ELSE Bool(Lower(Strip(str(x))) \in TrueWords)

\* repr of a list of strings (none holds a quote): ['a', 'c']
RECURSIVE ReprItems(_)
ReprItems(l) ==
    IF l = <<>> THEN <<>>
    ELSE <<"'">> \o Head(l) \o <<"'">>
         \o (IF Len(l) > 1 THEN <<",", " ">> ELSE <<>>) \o ReprItems(Tail(l))

\* str(value) of a hashtags value
HashtagText(value) ==
    IF value.kind = "list" THEN <<"[">> \o ReprItems(value.l) \o <<"]">> ELSE str(value)

\* `pd.isna(value) or ...`: for a list pd.isna gives an array, and the truth
\* value of an array of two or more elements raises ValueError
IsnaRaises(value) == value.kind = "list" /\ Len(value.l) >= 2

\* s.replace("#", " ")
HashToSpace(s) == [i \in 1..Len(s) |-> IF s[i] = "#" THEN " " ELSE s[i]]

\* the non-empty pieces of re.split(r"[ ,]+", s)
RECURSIVE SplitSpaceComma(_, _, _)
SplitSpaceComma(s, cur, acc) ==
    IF s = <<>> THEN (IF cur = <<>> THEN acc ELSE Append(acc, cur))
    ELSE IF Head(s) \in {" ", ","}
         THEN SplitSpaceComma(Tail(s), <<>>, IF cur = <<>> THEN acc ELSE Append(acc, cur))
    ELSE SplitSpaceComma(Tail(s), Append(cur, Head(s)), acc)

\* [f(t) for t in tags if str(t).strip()], f without the lower-casing
RECURSIVE CleanListCased(_)
CleanListCased(q) ==
    IF q = <<>> THEN <<>>
    ELSE IF Strip(Head(q)) = <<>> THEN CleanListCased(Tail(q))
    ELSE <<LStripHash(Strip(Head(q)))>> \o CleanListCased(Tail(q))

\* a variant that returns the list's elements in reverse
parse_hashtags_reversed(value) ==
    IF IsnaRaises(value) THEN Raised
    ELSE IF isna(value) \/ (value.kind = "str" /\ value.s = <<>>) THEN List(<<>>)
    ELSE LET v == literal_eval(HashtagText(value))
             l == CleanList(v.l)
         IN  IF v.kind = "list" THEN List([k \in 1..Len(l) |-> l[Len(l) + 1 - k]])
             ELSE List(<<>>)

\* DataPrecleaner.__parse_hashtags
parse_hashtags(value) ==
    IF IsnaRaises(value) THEN Raised
    ELSE IF isna(value) \/ (value.kind = "str" /\ value.s = <<>>) THEN List(<<>>)
    ELSE LET text == HashtagText(value)
             v == literal_eval(text)
             toks == SplitSpaceComma(HashToSpace(text), <<>>, <<>>)
         IN  CASE v.kind = "list" -> List(CleanList(v.l))
               [] v.kind = "error" -> List([k \in 1..Len(toks) |-> Lower(Strip(toks[k]))])
               [] OTHER -> List(<<>>)

\* str.strip(chars) for a set of characters
RECURSIVE LStripSet(_, _)
LStripSet(s, cs) == IF s # <<>> /\ Head(s) \in cs THEN LStripSet(Tail(s), cs) ELSE s
RECURSIVE RStripSet(_, _)
RStripSet(s, cs) ==
    IF s # <<>> /\ s[Len(s)] \in cs THEN RStripSet(SubSeq(s, 1, Len(s) - 1), cs) ELSE s
StripSet(s, cs) == RStripSet(LStripSet(s, cs), cs)

\* s.split(","): every piece, the empty ones too
RECURSIVE SplitComma(_, _, _)
SplitComma(s, cur, acc) ==
    IF s = <<>> THEN Append(acc, cur)
    ELSE IF Head(s) = "," THEN SplitComma(Tail(s), <<>>, Append(acc, cur))
    ELSE SplitComma(Tail(s), Append(cur, Head(s)), acc)

\* [t.strip().lstrip("#").strip("'\"") for t in pieces if t.strip()]
RECURSIVE CommaTokens(_)
CommaTokens(q) ==
    IF q = <<>> THEN <<>>
    ELSE IF Strip(Head(q)) = <<>> THEN CommaTokens(Tail(q))
    ELSE <<StripSet(LStripHash(Strip(Head(q))), {"'", "\""})>> \o CommaTokens(Tail(q))

\* _parse_list
parse_list(x) ==
    IF IsnaRaises(x) THEN Raised
    ELSE IF isna(x) THEN List(<<>>)
    ELSE IF x.kind = "list" THEN x
    ELSE LET v == literal_eval(str(x))
         IN  IF v.kind = "list" THEN List(CleanListCased(v.l))
             ELSE List(CommaTokens(SplitComma(StripSet(Strip(str(x)), {"[", "]"}), <<>>, <<>>)))

\* None if pd.isna(v) else int(float(v))       (user_followers)
int_float(v) ==
    CASE isna(v) -> PyNone
      [] v.kind = "float" -> PyInt(Trunc(v.n))
      [] v.kind = "int" -> v
      [] v.kind = "str" ->
           (LET r == ParseNumber(v.s) IN IF r.ok THEN PyInt(Trunc(r.n)) ELSE Raised)
      [] OTHER -> Raised

\* None if pd.isna(v) else int(v)              (user_friends, user_favourites)
int_plain(v) ==
    CASE isna(v) -> PyNone
      [] v.kind = "float" -> PyInt(Trunc(v.n))
      [] v.kind = "int" -> v
      [] v.kind = "str" ->
           (LET r == ParseNumber(v.s)
            IN  IF r.ok /\ r.whole THEN PyInt(Trunc(r.n)) ELSE Raised)
      [] OTHER -> Raised

\* pd.to_numeric(col, errors="coerce").fillna(0).astype(int), one value
coerce_int(v) ==
    LET x == to_numeric(v)
    IN  IF isna(x) THEN PyInt(0) ELSE PyInt(Trunc(x.n))

\* col.clip(lower=0) then col.fillna(0), one value of a numeric column; a
\* text value cannot be compared with 0 and clip raises TypeError
clip_fill(v) ==
    CASE v.kind = "float" -> IF v.n < 0 THEN PyFloat(0) ELSE v
      [] v.kind = "int" -> IF v.n < 0 THEN PyInt(0) ELSE v
      [] isna(v) -> PyFloat(0)
      [] OTHER -> Raised

\* None if pd.isna(v) else pd.to_datetime(v, errors="coerce")
parse_date(v) == IF isna(v) THEN PyNone ELSE to_datetime(v)

(* ------------------------------------------------------------------ *)
(* The field normalizers applied to one raw value                     *)
(* ------------------------------------------------------------------ *)
\* the loaders are not running
LoadIdle ==
    /\ rows = <<>>
    /\ batch_size = 1
    /\ runs = 1
    /\ pc = "idle"
    /\ total = 0
    /\ user_id = None /\ source_id = None /\ tweet_id = None /\ hashtag_id = None
    /\ tagq = <<>>
    /\ db = NoTables
    /\ durable = NoTables
    /\ seq = NoSeq
    /\ mongo_ops = <<>>
    /\ col = {}
    /\ indexes = FALSE
    /\ oid = 0
    /\ bulks = <<>>
    /\ ncommits = 0
    /\ upserts = <<>>
    /\ origin = {}
    /\ link_calls = <<>>
    /\ writers = <<>>

load ==
    <<rows, batch_size, runs, pc, total, locals, db, durable, seq, mongo, ncommits,
      hist, writers>>

\* elements a hashtags list is made of
TagItems == { <<"A">>, <<"#", "c">>, <<>>, <<" ", "a", " ">>, <<"#">>, <<"a", " ", "C">> }
TagLists == SeqsUpTo(TagItems, MaxTagItems)

TagAlphabet == {"a", "c", "A", "C", "#", "'", ",", "[", "]", " "}

\* no list stands inside a list or a tuple (such texts are outside the
\* fragment of literal_eval that is modelled)
InFragment(s) ==
    \A i, j \in 1..Len(s) :
        i < j => ~(s[i] = "]" /\ s[j] = ",") /\ ~(s[i] \in {"[", ","} /\ s[j] = "[")

\* raw values of the hashtags column: missing, every short text, the text of
\* every list, comma and blank separated words, and lists themselves
TagInputs ==
    {NaN}
    \cup { Str(s) : s \in { x \in SeqsUpTo(TagAlphabet, MaxTagText) : InFragment(x) } }
    \cup { Str(<<"[">> \o ReprItems(l) \o <<"]">>) : l \in TagLists }
    \cup { Str(<<"a", ",", " ", "C", ",", " ", "#", "c">>),
           Str(<<"'", "a", "'", ",", " ", "'", "C", "'">>),
           Str(<<"#", "a", " ", "#", "C">>) }
    \cup { List(l) : l \in TagLists \ {<<>>} }

BoolAlphabet == {"t", "T", "y", "Y", "1", "0", "n", " "}

BoolWords ==
    { <<"t", "r", "u", "e">>, <<"T", "r", "u", "e">>, <<"T", "R", "U", "E">>,
      <<" ", "t", "r", "u", "e", " ">>, <<"y", "e", "s">>, <<"Y", "E", "S">>,
      <<"Y", "e", "s", " ">>, <<"f", "a", "l", "s", "e">>, <<"F", "a", "l", "s", "e">>,
      <<"t", "r", "u">>, <<"y", "e">>, <<"1", ".", "0">>, <<"n", "o">> }

\* raw values of a boolean column
BoolInputs ==
    {NaN, PyNone, Bool(TRUE), Bool(FALSE), PyInt(0), PyInt(1), PyFloat(10), PyFloat(0)}
    \cup { Str(s) : s \in SeqsUpTo(BoolAlphabet, MaxBoolText) \ {<<>>} }
    \cup { Str(s) : s \in BoolWords }

NumAlphabet == {"-", "1", "5", ".", "a"}

\* raw values of a numeric column
NumInputs ==
    {NaN}
    \cup { PyFloat(x) : x \in (0 - MaxTenths)..MaxTenths }
    \cup { PyInt(x) : x \in -2..2 }
    \cup { Str(s) : s \in SeqsUpTo(NumAlphabet, MaxNumText) \ {<<>>} }

\* raw values of a date column
DateInputs ==
    {NaN} \cup { Str(s) : s \in SeqsUpTo({"1", "2", "a"}, 2) \ {<<>>} }

norm_to_bool ==
    /\ stage = "bool_arg"
    /\ res' = to_bool(arg)
    /\ stage' = "to_bool"
    /\ UNCHANGED <<load, raw, out, removed, arg>>

norm_parse_bool ==
    /\ stage = "bool_arg"
    /\ res' = parse_bool(arg)
    /\ stage' = "parse_bool"
    /\ UNCHANGED <<load, raw, out, removed, arg>>

norm_parse_hashtags ==
    /\ stage = "tags_arg"
    /\ res' = parse_hashtags(arg)
    /\ stage' = "parse_hashtags"
    /\ UNCHANGED <<load, raw, out, removed, arg>>

norm_parse_list ==
    /\ stage = "tags_arg"
    /\ res' = parse_list(arg)
    /\ stage' = "parse_list"
    /\ UNCHANGED <<load, raw, out, removed, arg>>

norm_int_float ==
    /\ stage = "num_arg"
    /\ res' = int_float(arg)
    /\ stage' = "int_float"
    /\ UNCHANGED <<load, raw, out, removed, arg>>

norm_int_plain ==
    /\ stage = "num_arg"
    /\ res' = int_plain(arg)
    /\ stage' = "int_plain"
    /\ UNCHANGED <<load, raw, out, removed, arg>>

norm_coerce_int ==
    /\ stage = "num_arg"
    /\ res' = coerce_int(arg)
    /\ stage' = "coerce_int"
    /\ UNCHANGED <<load, raw, out, removed, arg>>

norm_clip_fill ==
    /\ stage = "num_arg"
    /\ res' = clip_fill(arg)
    /\ stage' = "clip_fill"
    /\ UNCHANGED <<load, raw, out, removed, arg>>

norm_parse_date ==
    /\ stage = "date_arg"
    /\ res' = parse_date(arg)
    /\ stage' = "parse_date"
    /\ UNCHANGED <<load, raw, out, removed, arg>>

norm_to_datetime ==
    /\ stage = "date_arg"
    /\ res' = to_datetime(arg)
    /\ stage' = "to_datetime"
    /\ UNCHANGED <<load, raw, out, removed, arg>>

InitNorm ==
    /\ LoadIdle
    /\ raw = <<>>
    /\ out = <<>>
    /\ removed = 0
    /\ res = <<>>
    /\ \/ stage = "bool_arg" /\ arg \in BoolInputs
       \/ stage = "tags_arg" /\ arg \in TagInputs
       \/ stage = "num_arg" /\ arg \in NumInputs
       \/ stage = "date_arg" /\ arg \in DateInputs

NextNorm ==
    \/ norm_to_bool
    \/ norm_parse_bool
    \/ norm_parse_hashtags
    \/ norm_parse_list
    \/ norm_int_float
    \/ norm_int_plain
    \/ norm_coerce_int
    \/ norm_clip_fill
    \/ norm_parse_date
    \/ norm_to_datetime

SpecNorm == InitNorm /\ [][NextNorm]_vars

(* ------------------------------------------------------------------ *)
(* Frames handed to the cleaning and normalizing passes. An empty     *)
(* cell of the file is NaN (pd.read_csv never yields an empty text).  *)
(* ------------------------------------------------------------------ *)
\* f"unknown_user_{i}" (the prefix is kept as one symbol)
unknown_user(i) == Str(<<"unknown_user_">> \o NatChars(i))

\* a complete row of user a, and rows that differ from it in a few cells
RawBase ==
    Row(Str(<<"a">>), Str(<<"w">>), Str(<<"d">>), Str(<<"1">>), PyFloat(10), PyFloat(20),
        PyFloat(7), Bool(FALSE), Str(<<"2">>), Str(<<"x">>), Str(<<"[", "'", "A", "'", "]">>),
        Str(<<"<", "a", ">", "w", "<", "a", ">">>), Bool(FALSE))

\* a second tweet of user a
RawSameUser == [RawBase EXCEPT !.text = Str(<<"y">>), !.date = Str(<<"4">>)]
\* no user_name, no user_created, negative and fractional counts
RawNoName ==
    [RawBase EXCEPT !.user_name = NaN, !.user_created = NaN, !.text = Str(<<"z">>),
                    !.user_followers = PyFloat(-50), !.user_friends = PyFloat(15),
                    !.user_verified = Str(<<"T", "R", "U", "E">>)]
\* a blank user_name
RawBlankName ==
    [RawBase EXCEPT !.user_name = Str(<<" ">>), !.user_created = Str(<<"5">>),
                    !.hashtags = NaN, !.source = NaN]
\* a user whose name is the first placeholder
RawPlaceholder == [RawBase EXCEPT !.user_name = unknown_user(1), !.text = Str(<<"p">>)]
\* no date
RawNoDate == [RawBase EXCEPT !.user_name = Str(<<"c">>), !.date = NaN]
\* a date and a user_created that are not dates
RawBadDate ==
    [RawBase EXCEPT !.user_name = Str(<<"c">>), !.date = Str(<<"a">>),
                    !.user_created = Str(<<"a">>)]
\* no text
RawNoText == [RawBase EXCEPT !.user_name = Str(<<"c">>), !.text = NaN, !.user_verified = NaN]
\* optional cells missing
RawNoLocation ==
    [RawBase EXCEPT !.user_name = Str(<<"c">>), !.user_location = NaN,
                    !.user_followers = NaN, !.is_retweet = NaN]
\* a follower count that is not a number
RawGarbage == [RawBase EXCEPT !.user_name = Str(<<"c">>), !.user_followers = Str(<<"a">>)]

RawRows ==
    { RawBase, RawSameUser, RawNoName, RawBlankName, RawPlaceholder, RawNoDate,
      RawBadDate, RawNoText, RawNoLocation }

\* the text of a number as the file holds it: 7 or 1.5
NumberText(v) ==
    IF v.kind = "float"
    THEN Str(IF v.n % 10 = 0 THEN IntChars(Trunc(v.n)) ELSE FloatChars(v.n))
    ELSE v

\* a column that holds one text that is no number is read as text in every row
TextFollowers(b) ==
    [k \in 1..Len(b) |-> [b[k] EXCEPT !.user_followers = NumberText(b[k].user_followers)]]

\* the frames pd.read_csv can hand over
RawFrames ==
    SeqsUpTo(RawRows, MaxRaw)
    \cup { TextFollowers(b) :
             b \in { x \in SeqsUpTo(RawRows \cup {RawGarbage}, MaxRaw) :
                       \E k \in 1..Len(x) : x[k] = RawGarbage } }

(* ------------------------------------------------------------------ *)
(* clean_csv_data (src/main.py)                                       *)
(* ------------------------------------------------------------------ *)
\* df.drop_duplicates(): the first of equal rows is kept
RECURSIVE DropDuplicates(_, _)
DropDuplicates(f, acc) ==
    IF f = <<>> THEN acc
    ELSE DropDuplicates(Tail(f),
                        IF \E k \in 1..Len(acc) : acc[k] = Head(f) THEN acc
                        ELSE Append(acc, Head(f)))

\* col.fillna('').str.strip() != ''
NonBlankText(v) == v.kind = "str" /\ Strip(v.s) # <<>>

\* step 2: the four text columns, one filter after the other
KeepTextRows(f) ==
    LET f1 == SelectSeq(f, LAMBDA r : NonBlankText(r.user_name))
        f2 == SelectSeq(f1, LAMBDA r : NonBlankText(r.user_location))
        f3 == SelectSeq(f2, LAMBDA r : NonBlankText(r.user_description))
    IN  SelectSeq(f3, LAMBDA r : NonBlankText(r.text))

\* steps 3 to 5 without the dropna on date
KeepMandatoryRows_nodate(f) ==
    LET f1 == SelectSeq(f, LAMBDA r : ~isna(r.user_name))
        f2 == SelectSeq(f1, LAMBDA r : Strip(str(r.user_name)) # <<>>)
        f4 == SelectSeq(f2, LAMBDA r : ~isna(r.text))
    IN  SelectSeq(f4, LAMBDA r : Strip(str(r.text)) # <<>>)

\* steps 3 to 5: dropna and strip filters on user_name, date, text
KeepMandatoryRows(f) ==
    LET f1 == SelectSeq(f, LAMBDA r : ~isna(r.user_name))
        f2 == SelectSeq(f1, LAMBDA r : Strip(str(r.user_name)) # <<>>)
        f3 == SelectSeq(f2, LAMBDA r : ~isna(r.date))
        f4 == SelectSeq(f3, LAMBDA r : ~isna(r.text))
    IN  SelectSeq(f4, LAMBDA r : Strip(str(r.text)) # <<>>)

fillna(v, dflt) == IF isna(v) THEN dflt ELSE v

\* steps 6 to 9 on one row
FillRow(r) ==
    [r EXCEPT !.hashtags = fillna(@, Str(<<"[", "]">>)),
              !.user_followers = clip_fill(@),
              !.user_friends = clip_fill(@),
              !.user_favourites = clip_fill(@),
              !.user_verified = fillna(@, Bool(FALSE)),
              !.is_retweet = fillna(@, Bool(FALSE)),
              !.source = fillna(@, Str(<<"Unknown">>))]

\* clip raises on a column of text
ClipRaises(f) ==
    \E k \in 1..Len(f) :
        \E v \in {f[k].user_followers, f[k].user_friends, f[k].user_favourites} :
            clip_fill(v) = Raised

\* the frame clean_csv_data returns
clean_csv_frame(f) ==
    LET g == KeepMandatoryRows(KeepTextRows(DropDuplicates(f, <<>>)))
    IN  [k \in 1..Len(g) |-> FillRow(g[k])]

\* original_count - final_count
removed_count(f) == Len(f) - Len(clean_csv_frame(f))

(* ------------------------------------------------------------------ *)
(* DataPrecleaner.clean_data (src/db/data_precleaner.py)              *)
(* ------------------------------------------------------------------ *)
\* df["user_name"].isna() | (df["user_name"].astype(str).str.strip() == "")
missing_mask(r) == isna(r.user_name) \/ Strip(str(r.user_name)) = <<>>

\* the position of row k among the rows of the mask: range(1, missing_mask.sum() + 1)
MissingOrdinal(f, k) == Cardinality({ j \in 1..k : missing_mask(f[j]) })

\* col.fillna(d).astype(str).str.strip().replace("", d)
TextDefault(v, d) ==
    IF isna(v) THEN Str(d)
    ELSE LET s == Strip(str(v)) IN Str(IF s = <<>> THEN d ELSE s)

\* re.sub(r"<.*?>", "", s): each '<' with a later '>' goes, with all between
RECURSIVE RemoveTags(_)
RemoveTags(s) ==
    IF s = <<>> THEN <<>>
    ELSE IF Head(s) = "<" /\ \E k \in 2..Len(s) : s[k] = ">"
    THEN LET k == CHOOSE j \in 2..Len(s) :
                      s[j] = ">" /\ \A i \in 2..(j - 1) : s[i] # ">"
         IN  RemoveTags(SubSeq(s, k + 1, Len(s)))
    ELSE <<Head(s)>> \o RemoveTags(Tail(s))

\* the source column of clean_data
CleanSource(v) ==
    LET s == Strip(RemoveTags(IF isna(v) THEN <<"Unknown source">> ELSE str(v)))
    IN  Str(IF s = <<>> THEN <<"Unknown source">> ELSE s)

\* the k-th smallest of the values xs[i], i in I
KthSmallest(xs, I, k) ==
    CHOOSE v \in { xs[i] : i \in I } :
        /\ Cardinality({ i \in I : xs[i] < v }) < k
        /\ Cardinality({ i \in I : xs[i] <= v }) >= k

\* a median that takes the lower of the two middle values
Median_low(xs, I) == KthSmallest(xs, I, (Cardinality(I) + 1) \div 2)

\* Series.median() of the values xs[i], i in I (I is not empty)
Median(xs, I) ==
    LET c == Cardinality(I)
    IN  IF c % 2 = 1 THEN KthSmallest(xs, I, (c + 1) \div 2)
        ELSE (KthSmallest(xs, I, c \div 2) + KthSmallest(xs, I, c \div 2 + 1)) \div 2

\* the user_created column: to_datetime, then the median (or now) for NaT
CleanUserCreated(f) ==
    LET parsed == [k \in 1..Len(f) |-> to_datetime(f[k].user_created)]
        I == { k \in 1..Len(f) : ~isna(parsed[k]) }
        median_uc == IF I # {}
                     THEN Timestamp(Median([k \in 1..Len(f) |-> parsed[k].n], I))
                     ELSE utcnow
    IN  [k \in 1..Len(f) |-> IF isna(parsed[k]) THEN median_uc ELSE parsed[k]]

\* the date column: to_datetime, forward fill, then now for a leading NaT
CleanDate(f) ==
    LET parsed == [k \in 1..Len(f) |-> to_datetime(f[k].date)]
    IN  [k \in 1..Len(f) |->
            LET I == { j \in 1..k : ~isna(parsed[j]) }
            IN  IF I = {} THEN utcnow
                ELSE parsed[CHOOSE j \in I : \A i \in I : i <= j]]

\* the frame clean_data returns
clean_data_frame(f) ==
    LET created == CleanUserCreated(f)
        date == CleanDate(f)
    IN  [k \in 1..Len(f) |->
            [user_name |-> IF missing_mask(f[k]) THEN unknown_user(MissingOrdinal(f, k))
                           ELSE f[k].user_name,
             user_location |-> TextDefault(f[k].user_location, <<"unknown">>),
             user_description |-> TextDefault(f[k].user_description, <<"No description">>),
             user_created |-> created[k],
             user_followers |-> coerce_int(f[k].user_followers),
             user_friends |-> coerce_int(f[k].user_friends),
             user_favourites |-> coerce_int(f[k].user_favourites),
             user_verified |-> to_bool(f[k].user_verified),
             date |-> date[k],
             text |-> IF isna(f[k].text) THEN Str(<<"No content">>) ELSE Str(str(f[k].text)),
             hashtags |-> parse_hashtags(f[k].hashtags),
             source |-> CleanSource(f[k].source),
             is_retweet |-> to_bool(f[k].is_retweet)]]

(* ------------------------------------------------------------------ *)
(* load_csv and normalize_row (src/etl/load_tweets.py)                *)
(* ------------------------------------------------------------------ *)
\* df.fillna({"user_verified": False, "is_retweet": False}) on one record
FillBooleans(r) ==
    [r EXCEPT !.user_verified = fillna(@, Bool(FALSE)),
              !.is_retweet = fillna(@, Bool(FALSE))]

\* a conversion of normalize_row raises on this record
NormalizeRaises(r) ==
    \/ int_float(r.user_followers) = Raised
    \/ int_plain(r.user_friends) = Raised
    \/ int_plain(r.user_favourites) = Raised
    \/ parse_list(r.hashtags) = Raised

\* the record normalize_row returns
normalize_row(r) ==
    [r EXCEPT !.user_followers = int_float(@),
              !.user_friends = int_plain(@),
              !.user_favourites = int_plain(@),
              !.user_verified = parse_bool(@),
              !.user_created = parse_date(@),
              !.date = parse_date(@),
              !.hashtags = parse_list(@)]

(* ------------------------------------------------------------------ *)
(* The passes over one frame                                          *)
(* ------------------------------------------------------------------ *)
\* main.clean_csv_data(df)
clean_csv_data ==
    /\ stage = "frame"
    /\ LET kept == KeepMandatoryRows(KeepTextRows(DropDuplicates(raw, <<>>)))
       IN  IF ClipRaises(kept)
           THEN /\ stage' = "csv_raised"
                /\ UNCHANGED <<out, removed>>
           ELSE /\ stage' = "csv_cleaned"
                /\ out' = clean_csv_frame(raw)
                /\ removed' = removed_count(raw)
    /\ UNCHANGED <<load, raw, arg, res>>

\* DataPrecleaner.clean_data(df)
clean_data ==
    /\ stage = "frame"
    /\ stage' = "pre_cleaned"
    /\ out' = clean_data_frame(raw)
    /\ UNCHANGED <<load, raw, removed, arg, res>>

\* load_csv(path): the generator over the records of the frame
load_csv ==
    /\ stage = "frame"
    /\ stage' = "records"
    /\ UNCHANGED <<load, raw, out, removed, arg, res>>

\* a consumer that puts each record it takes in front of the earlier ones
normalize_next_prepend ==
    /\ stage = "records"
    /\ Len(out) < Len(raw)
    /\ LET rec == FillBooleans(raw[Len(out) + 1])
       IN  IF NormalizeRaises(rec)
           THEN /\ stage' = "norm_raised"
                /\ out' = out
           ELSE /\ stage' = stage
                /\ out' = <<normalize_row(rec)>> \o out
    /\ UNCHANGED <<load, raw, removed, arg, res>>

\* the consumer takes the next record of the generator
normalize_next ==
    /\ stage = "records"
    /\ Len(out) < Len(raw)
    /\ LET rec == FillBooleans(raw[Len(out) + 1])
       IN  IF NormalizeRaises(rec)
           THEN /\ stage' = "norm_raised"
                /\ out' = out
           ELSE /\ stage' = stage
                /\ out' = Append(out, normalize_row(rec))
    /\ UNCHANGED <<load, raw, removed, arg, res>>

\* the generator is exhausted
load_csv_exhausted ==
    /\ stage = "records"
    /\ Len(out) = Len(raw)
    /\ stage' = "normalized"
    /\ UNCHANGED <<load, raw, out, removed, arg, res>>

InitClean ==
    /\ LoadIdle
    /\ raw \in RawFrames
    /\ out = <<>>
    /\ removed = 0
    /\ stage = "frame"
    /\ arg = <<>>
    /\ res = <<>>

NextClean ==
    \/ clean_csv_data
    \/ clean_data
    \/ load_csv
    \/ normalize_next
    \/ load_csv_exhausted

SpecClean == InitClean /\ [][NextClean]_vars

(* ------------------------------------------------------------------ *)
(* Properties                                                         *)
(* ------------------------------------------------------------------ *)
Range(q) == { q[k] : k \in 1..Len(q) }

\* the distinct natural keys of the input
RowUserNames == { rows[k].user_name : k \in 1..Len(rows) }
RowSourceNames == { rows[k].source : k \in 1..Len(rows) } \ {""}

\* C1: when the k-th pass of the relational load over the same frame of n
\* rows has ended (the store never cleared in between), the store holds
\* exactly one users row per distinct user_name of the frame, exactly one
\* sources row per distinct source name, and exactly k*n tweets rows.
C1_LoadIdempotence ==
    pc = "pg_done" =>
        /\ db = durable
        /\ { u.user_name : u \in durable.users } = RowUserNames
        /\ \A nm \in RowUserNames :
               Cardinality({ u \in durable.users : u.user_name = nm }) = 1
        /\ { s.name : s \in durable.sources } = RowSourceNames
        /\ \A nm \in RowSourceNames :
               Cardinality({ s \in durable.sources : s.name = nm }) = 1
        /\ Cardinality(durable.tweets) = runs * Len(rows)

\* the second pass over a frame of three rows, two of them of one user, has ended
C1_Witness ==
    /\ pc = "pg_done"
    /\ runs = 2
    /\ Len(rows) = 3
    /\ Cardinality(RowUserNames) = 2
    /\ Cardinality(durable.users) = 2
    /\ Cardinality(durable.tweets) = 6

\* the upsert_user calls made for one user_name, by position in the history
UpsertsOf(nm) == { k \in 1..Len(upserts) : upserts[k].row.user_name = nm }
LastUpsertOf(nm) == CHOOSE k \in UpsertsOf(nm) : \A j \in UpsertsOf(nm) : j <= k

UsersAsUpserted(users) ==
    /\ { u.user_name : u \in users } = { upserts[k].row.user_name : k \in 1..Len(upserts) }
    /\ \A nm \in { u.user_name : u \in users } :
         LET mine == { u \in users : u.user_name = nm }
         IN  /\ Cardinality(mine) = 1
             /\ \A u \in mine :
                  /\ u = UserRow(u.id, upserts[LastUpsertOf(nm)].row)
                  /\ \A k \in UpsertsOf(nm) : upserts[k].ret = u.id

\* C2: after any sequence of upsert_user calls the users table holds exactly
\* one row per upserted user_name, that row carries the attributes of the
\* latest upsert for the name, and every upsert for the name returned that
\* row's id.
C2_UpsertLastWriteWins == UsersAsUpserted(db.users) /\ UsersAsUpserted(durable.users)

\* one user_name upserted twice with different attributes; the row shows the later ones
C2_Witness ==
    \E k1, k2 \in 1..Len(upserts) :
        /\ k1 < k2
        /\ upserts[k1].row.user_name = upserts[k2].row.user_name
        /\ upserts[k1].row.user_location # upserts[k2].row.user_location
        /\ k2 = LastUpsertOf(upserts[k2].row.user_name)
        /\ upserts[k1].ret = upserts[k2].ret
        /\ \E u \in db.users :
              /\ u.id = upserts[k2].ret
              /\ u.user_location = upserts[k2].row.user_location

\* two callers resolve the same key
SameKey(v, w) ==
    /\ writers[v].kind = writers[w].kind
    /\ writers[v].name = writers[w].name
    /\ writers[v].tag = writers[w].tag

\* the committed rows for the key of caller w
KeyRows(w) ==
    IF writers[w].kind = "source"
    THEN { s \in durable.sources : s.name = writers[w].name }
    ELSE { h \in durable.hashtags : h.tag = writers[w].tag }

\* two distinct callers of the same resolve-or-create for one key (a non-empty
\* name or tag) with no row when the calls start
RaceCase(v, w) ==
    /\ v # w
    /\ SameKey(v, w)
    /\ writers[w].kind = "source" => writers[w].name # ""
    /\ writers[w].absent

RaceSafe ==
    \A v, w \in Writers :
        RaceCase(v, w) =>
            /\ writers[w].pc # "error"
            /\ (writers[v].pc \in {"returned", "committed"}
                /\ writers[w].pc \in {"returned", "committed"})
               => (writers[v].ret = writers[w].ret /\ writers[w].ret # None)
            /\ (\A x \in Writers : SameKey(x, w) => writers[x].pc = "committed")
               => /\ Cardinality(KeyRows(w)) = 1
                  /\ \A r \in KeyRows(w) : r.id = writers[w].ret

RaceDone == \A w \in Writers : writers[w].pc = "committed"

\* C3: concurrent get_or_create_source (or get_or_create_hashtag) calls for
\* one initially absent key: under every interleaving of their lookup,
\* insert and re-lookup statements no call raises, every call returns, all
\* return the same id, and once the callers have committed exactly one row
\* exists for the key.
C3_ConcurrentResolveOrCreate == []RaceSafe /\ <>RaceDone

\* both callers missed in the first lookup, one inserted, the other's insert
\* did nothing and its second lookup found the row
C3_Witness ==
    \E v, w \in Writers :
        /\ RaceCase(v, w)
        /\ writers[v].pc = "committed" /\ writers[w].pc = "committed"
        /\ writers[v].missed /\ writers[w].missed
        /\ ~writers[v].relooked /\ writers[w].relooked
        /\ writers[v].ret = writers[w].ret
        /\ Cardinality(KeyRows(w)) = 1

\* C4: during a load the relational transaction is committed only at flush
\* boundaries (after every batch_size-th record and once at the end of the
\* stream, besides the commits of the set-up before the first record); no
\* commit happens while a record is being processed.
C4_CommitOnlyAtFlush ==
    [][ncommits' > ncommits => pc \in {"clear", "init", "flush_pg", "final_pg"}]_vars

\* the tweets rows inserted for the record being processed
TweetIdsOfCurrent ==
    { o.id : o \in { x \in origin : x.row = total + 1 /\ x.run = runs } }

\* C5: when a write of a record's sequence has failed, nothing that record
\* wrote is durable: no users row for a user_name that only this record of
\* the input has brought so far, no tweets row of the record, no link row
\* of such a tweet.
C5_FailedRecordNotDurable ==
    pc = "crashed" =>
        /\ (\A j \in 1..total : rows[j].user_name # CurrentRow.user_name)
           => ~\E u \in durable.users : u.user_name = CurrentRow.user_name
        /\ \A x \in TweetIdsOfCurrent :
              /\ ~\E tw \in durable.tweets : tw.id = x
              /\ ~\E k \in 1..Len(durable.tweet_hashtags) :
                    durable.tweet_hashtags[k].tweet_id = x

\* run() has returned or has been ended by an exception
RunEnded == pc \in {"done", "crashed"}

\* C6: a write failure on one record does not abort the batch: when the run
\* has ended every record of the input has been submitted to the relational
\* sink and the final flush has been made.
C6_FailureDoesNotAbort ==
    RunEnded => (Len(upserts) = Len(rows) /\ total = Len(rows) /\ pc = "done")

\* the loader of the document sink alone (the other entry point is run())
InMongoLoader == pc \in {"mg_start", "mg_row", "mg_final", "mg_done"}

\* the document the running entry point builds for record k
DocOf(k) == IF InMongoLoader THEN build_document(rows[k]) ELSE build_mongo_doc(rows[k])

RECURSIVE Flatten(_)
Flatten(ss) == IF ss = <<>> THEN <<>> ELSE Head(ss) \o Flatten(Tail(ss))

\* floor(n/N) bulk writes of size N followed by one of size n mod N when that is non-zero
BulkSizesOk(n, size) ==
    /\ Len(bulks) = (n + size - 1) \div size
    /\ \A k \in 1..Len(bulks) :
          Len(bulks[k]) = IF k <= n \div size THEN size ELSE n % size

BulkWritesOk ==
    /\ \A k \in 1..Len(bulks) : bulks[k] # <<>>
    /\ pc \notin {"mg_done", "mg_start"} =>
          Flatten(bulks) \o mongo_ops = [k \in 1..total |-> DocOf(k)]
    /\ pc \in {"done", "mg_done"} =>
          /\ BulkSizesOk(Len(rows), batch_size)
          /\ Flatten(bulks) = [k \in 1..Len(rows) |-> DocOf(k)]

\* a step that issues a bulk write
Flushes == Len(bulks') = Len(bulks) + 1

\* C7 (as stated): for n records and batch size N the document sink issues
\* ceil(n/N) bulk writes, floor(n/N) of size N in input order and then one
\* of size n mod N when non-zero; none is empty, every document is in
\* exactly one of them, and the pending list is empty after every flush.
C7_PendingEmptyAfterEveryFlush ==
    []BulkWritesOk /\ [][Flushes => mongo_ops' = <<>>]_vars

\* C7 (amended): the same, except that the final flush of
\* MongoManager.load_data_from_dataframe leaves in its pending list the
\* operations it has just written.
C7_BulkWrites ==
    /\ []BulkWritesOk
    /\ [][Flushes => IF pc = "mg_final" THEN mongo_ops' = bulks'[Len(bulks')]
                     ELSE mongo_ops' = <<>>]_vars

\* batch size 2 and 5 records in the loader of the document sink: bulk
\* writes of sizes 2, 2, 1, the last still in the pending list
C7_Witness ==
    /\ pc = "mg_done"
    /\ batch_size = 2
    /\ Len(rows) = 5
    /\ Len(bulks) = 3
    /\ Len(bulks[1]) = 2 /\ Len(bulks[2]) = 2 /\ Len(bulks[3]) = 1
    /\ mongo_ops = bulks[3]

\* both entry points that feed the document sink
InitDoc == Init \/ InitMg
NextDoc == Next \/ NextMg
SpecDoc == InitDoc /\ [][NextDoc]_vars

\* C8: link_tweet_hashtag is idempotent: no call raises, the link table never
\* holds two rows for one (tweet id, hashtag id) pair, and every pair the
\* open transaction has linked, however many times, has exactly one row.
C8_LinkIdempotent ==
    /\ pc = "link" => INSERT_TWEET_HASHTAG(db, tweet_id, hashtag_id).ok
    /\ \A k1, k2 \in 1..Len(db.tweet_hashtags) :
          db.tweet_hashtags[k1] = db.tweet_hashtags[k2] => k1 = k2
    /\ \A k1, k2 \in 1..Len(durable.tweet_hashtags) :
          durable.tweet_hashtags[k1] = durable.tweet_hashtags[k2] => k1 = k2
    /\ pc # "crashed" =>
          \A p \in Range(link_calls) :
              Cardinality(LinkRows(db.tweet_hashtags, p.tweet_id, p.hashtag_id)) = 1

\* a record whose hashtag list repeats a tag: the same pair linked twice, one row
C8_Witness ==
    /\ pc # "crashed"
    /\ \E k1, k2 \in 1..Len(link_calls) :
          /\ k1 < k2
          /\ link_calls[k1] = link_calls[k2]
          /\ Cardinality(LinkRows(db.tweet_hashtags, link_calls[k1].tweet_id,
                                  link_calls[k1].hashtag_id)) = 1

\* how many records of the input yield the document of record k
SameDocs(k) == Cardinality({ j \in 1..Len(rows) : DocOf(j) = DocOf(k) })

\* C9: a failure-free run over n records from empty stores has, after its
\* final flush, exactly n tweets rows and exactly n documents, one tweets
\* row and one document per input record.
C9_ConsumedOnce ==
    /\ pc = "done" =>
          /\ Cardinality(durable.tweets) = Len(rows)
          /\ \A k \in 1..Len(rows) :
                \E tw \in durable.tweets :
                    /\ [id |-> tw.id, row |-> k, run |-> runs] \in origin
                    /\ tw.text = rows[k].text /\ tw.date = rows[k].date
                    /\ \A o \in origin : (o.row = k /\ o.run = runs) => o.id = tw.id
    /\ (pc = "done" \/ (pc = "mg_done" /\ runs = 1)) =>
          /\ Cardinality(col) = Len(rows)
          /\ \A k \in 1..Len(rows) :
                Cardinality({ d \in col : d.doc = DocOf(k) }) = SameDocs(k)

\* run() has ended on three records with batch size 2
C9_Witness ==
    /\ pc = "done"
    /\ Len(rows) = 3
    /\ batch_size = 2
    /\ Cardinality(durable.tweets) = 3
    /\ Cardinality(col) = 3

\* every tweets row of store d points at the users row and the sources row
\* that carry the names of the record it was inserted for
TweetRefs(d) ==
    \A tw \in d.tweets :
        \E o \in origin :
            /\ o.id = tw.id
            /\ \E u \in d.users :
                  u.id = tw.user_id /\ u.user_name = rows[o.row].user_name
            /\ \E s \in d.sources :
                  s.id = tw.source_id /\ s.name = rows[o.row].source

\* a tweets row that stays in the table stays as it is
TweetsKept(old, new) ==
    \A tw \in old.tweets : \A tw2 \in new.tweets : tw2.id = tw.id => tw2 = tw

\* C10: in every state of a load each tweets row references the users row
\* with its record's user_name and the sources row with its record's source
\* name (so both exist no later than the tweet), and no step modifies a
\* tweets row.
C10_TweetReferences ==
    /\ [](TweetRefs(db) /\ TweetRefs(durable))
    /\ [][TweetsKept(db, db') /\ TweetsKept(durable, durable')]_vars

\* tweets of two different users and two different sources are stored
C10_Witness ==
    /\ pc = "done"
    /\ \E t1, t2 \in durable.tweets :
          /\ t1.user_id # t2.user_id
          /\ t1.source_id # t2.source_id
    /\ TweetRefs(durable)

(* ------------------------------------------------------------------ *)
(* Properties of the cleaning and normalizing passes                  *)
(* ------------------------------------------------------------------ *)
\* the value is a text of at least one character
NonEmptyText(v) == v.kind = "str" /\ v.s # <<>>

\* one of the two cleaning passes has returned its frame
Cleaned == stage \in {"csv_cleaned", "pre_cleaned"}

\* C11: every record of the frame a cleaning pass returns has a date that is
\* not null, a text that is not empty and a user_name that is not empty.
C11_CleanedRecordsMandatory ==
    Cleaned =>
        \A k \in 1..Len(out) :
            /\ ~isna(out[k].date)
            /\ NonEmptyText(out[k].text)
            /\ NonEmptyText(out[k].user_name)

\* clean_csv_data has returned a frame from which it removed a record without
\* date and a record without text, and kept others
C11_Witness ==
    /\ stage = "csv_cleaned"
    /\ \E k \in 1..Len(raw) : isna(raw[k].date)
    /\ \E k \in 1..Len(raw) : isna(raw[k].text)
    /\ Len(out) >= 1

\* C12: in the frame a cleaning pass returns no two records carry the same
\* user_name.
C12_UserNameUnique ==
    Cleaned =>
        \A j, k \in 1..Len(out) : j # k => out[j].user_name # out[k].user_name

\* row k of the frame equals no earlier row
FirstOccurrence(f, k) == \A j \in 1..(k - 1) : f[j] # f[k]

\* C13: a record whose user_name is missing or blank is kept by the cleaning
\* pass under the name unknown_user_<n>, n being its ordinal, from 1, among
\* the records without name of the frame.
C13_MissingNameKept ==
    Cleaned =>
        \A k \in 1..Len(raw) :
            missing_mask(raw[k]) /\ FirstOccurrence(raw, k) =>
                \E j \in 1..Len(out) :
                    out[j].user_name = unknown_user(MissingOrdinal(raw, k))

\* the record has no date, a date that does not parse, or no text
MustGo(r) == isna(to_datetime(r.date)) \/ isna(r.text) \/ str(r.text) = <<>>

\* C14: the cleaning pass leaves out exactly the exact duplicates and the
\* records whose date is missing or does not parse or whose text is empty, and
\* every record it leaves out is counted as removed.
C14_OnlyMandatoryRemovals ==
    Cleaned =>
        LET d == DropDuplicates(raw, <<>>)
        IN  /\ Len(out) = Cardinality({ k \in 1..Len(d) : ~MustGo(d[k]) })
            /\ removed = Len(raw) - Len(out)

\* the value is an integer that is not negative
NonNegativeInt(v) == v.kind = "int" /\ v.n >= 0

\* C15: in every record a cleaning or normalizing pass returns, user_followers,
\* user_friends and user_favourites are integers >= 0.
C15_CountsNonNegativeInt ==
    stage \in {"csv_cleaned", "pre_cleaned", "normalized"} =>
        \A k \in 1..Len(out) :
            /\ NonNegativeInt(out[k].user_followers)
            /\ NonNegativeInt(out[k].user_friends)
            /\ NonNegativeInt(out[k].user_favourites)

\* the cells no normalizer touches are those of the record it was made from
SameRecord(r, o) ==
    /\ ~isna(r.text) => o.text = r.text
    /\ ~missing_mask(r) => o.user_name = r.user_name

IsTrueWord(v) == ~isna(v) /\ Lower(Strip(str(v))) \in TrueWords

ListLiteral(l) == Str(<<"[">> \o ReprItems(l) \o <<"]">>)

\* the texts of the lists of up to MaxTagItems elements
ListLiterals == { ListLiteral(l) : l \in TagLists }

\* the elements of such a text: what stands between each pair of quotes
RECURSIVE QuotedItems(_, _, _, _)
QuotedItems(s, inside, cur, acc) ==
    IF s = <<>> THEN acc
    ELSE IF Head(s) = "'"
         THEN IF inside THEN QuotedItems(Tail(s), FALSE, <<>>, Append(acc, cur))
              ELSE QuotedItems(Tail(s), TRUE, <<>>, acc)
    ELSE QuotedItems(Tail(s), inside, IF inside THEN Append(cur, Head(s)) ELSE cur, acc)

\* the elements that are not blank, in their order
KeptItems(l) == SelectSeq(l, LAMBDA t : Strip(t) # <<>>)

Words(s) ==
    LET toks == SplitSpaceComma(HashToSpace(s), <<>>, <<>>)
    IN  [k \in 1..Len(toks) |-> Lower(toks[k])]

\* C19: for every text that is not empty and is not a list literal, both
\* hashtag normalizers return its words in order, also when the text is another
\* valid literal (a quoted word, a tuple).
C19_SplitFallback ==
    (/\ stage \in {"parse_hashtags", "parse_list"}
     /\ arg.kind = "str" /\ arg.s # <<>>
     /\ literal_eval(arg.s).kind # "list")
        => res = List(Words(arg.s))

\* C20: the field normalizers of normalize_row and of DataPrecleaner never
\* raise: for every raw value they return a value.
C20_NormalizersTotal ==
    stage \in {"to_bool", "parse_bool", "parse_hashtags", "parse_list", "int_float",
               "int_plain", "coerce_int", "parse_date", "to_datetime"}
        => res # Raised

(* ------------------------------------------------------------------ *)
(* Properties of the stores across loads                              *)
(* ------------------------------------------------------------------ *)
\* C21: the loader of the document sink only adds documents: no step removes
\* or changes a stored document, a bulk write of m operations adds exactly m
\* documents, and after k loads of the same n records without clearing the
\* collection holds k*n documents.
C21_AppendOnly ==
    /\ [][/\ col \subseteq col'
          /\ Flushes =>
                Cardinality(col') = Cardinality(col) + Len(bulks'[Len(bulks')])]_vars
    /\ [](pc = "mg_done" => Cardinality(col) = runs * Len(rows))

\* the loader has run twice over three records: six documents
C21_Witness ==
    /\ pc = "mg_done"
    /\ runs = 2
    /\ Len(rows) = 3
    /\ Cardinality(col) = 6

\* the user fields of a record
OwnUser(row) ==
    [user_name |-> row.user_name, user_location |-> row.user_location,
     user_description |-> row.user_description, user_created |-> row.user_created,
     user_followers |-> row.user_followers, user_friends |-> row.user_friends,
     user_favourites |-> row.user_favourites, user_verified |-> row.user_verified]

\* document d was built for record k and carries that record's user fields
EmbedsUserOf(d, k) ==
    /\ d.user = OwnUser(rows[k])
    /\ d.text = rows[k].text
    /\ d.date = rows[k].date

\* C22: every pending or stored document carries the user fields of the record
\* it was built for, every record of a finished load has such a document, and
\* no step other than the dropping of the collection changes a stored document
\* (in particular not the upsert of a later record of the same user).
C22_UserEmbeddedByValue ==
    /\ [](/\ \A d \in col : \E k \in 1..Len(rows) : EmbedsUserOf(d.doc, k)
          /\ \A i \in 1..Len(mongo_ops) : \E k \in 1..Len(rows) : EmbedsUserOf(mongo_ops[i], k)
          /\ pc \in {"done", "mg_done"} =>
                \A k \in 1..Len(rows) : \E d \in col : EmbedsUserOf(d.doc, k))
    /\ [][pc # "clear" => col \subseteq col']_vars

\* run() has ended; two documents of one user differ in user_location while
\* the users table holds one row for that user, with the later location
C22_Witness ==
    /\ pc = "done"
    /\ \E d1, d2 \in col :
          /\ d1.doc.user.user_name = d2.doc.user.user_name
          /\ d1.doc.user.user_location # d2.doc.user.user_location
          /\ \E u \in durable.users :
                /\ u.user_name = d1.doc.user.user_name
                /\ u.user_location = d2.doc.user.user_location
                /\ \A v \in durable.users : v.user_name = u.user_name => v = u

\* the user_created cell of the record holds a date
HasUserCreated(r) == ~isna(to_datetime(r.user_created))

\* m is the median of the values xs[i], i in I: the middle value, or the mean
\* of the two middle values
IsMedian(m, xs, I) ==
    LET c == Cardinality(I)
        Below(v) == Cardinality({ i \in I : xs[i] < v })
        UpTo(v) == Cardinality({ i \in I : xs[i] <= v })
    IN  \E a, b \in { xs[i] : i \in I } :
            /\ Below(a) < (c + 1) \div 2 /\ UpTo(a) >= (c + 1) \div 2
            /\ Below(b) < c \div 2 + 1 /\ UpTo(b) >= c \div 2 + 1
            /\ 2 * m = a + b

\* C23: in the frame DataPrecleaner.clean_data returns every user_created is a
\* timestamp; a record that had one keeps it, a record that had none gets the
\* median of those present in the frame, or the current time when none is.
C23_UserCreatedImputed ==
    stage = "pre_cleaned" =>
        LET I == { k \in 1..Len(raw) : HasUserCreated(raw[k]) }
            xs == [k \in 1..Len(raw) |-> to_datetime(raw[k].user_created).n]
        IN  \A k \in 1..Len(out) :
                /\ out[k].user_created.kind = "ts"
                /\ k \in I => out[k].user_created = to_datetime(raw[k].user_created)
                /\ k \notin I /\ I = {} => out[k].user_created = utcnow
                /\ k \notin I /\ I # {} => IsMedian(out[k].user_created.n, xs, I)

\* a frame of three records, two with different user_created values and one
\* without: the third got the mean of the two
C23_Witness ==
    /\ stage = "pre_cleaned"
    /\ Len(raw) = 3
    /\ \E i, j, k \in 1..3 :
          /\ HasUserCreated(raw[i]) /\ HasUserCreated(raw[j]) /\ ~HasUserCreated(raw[k])
          /\ to_datetime(raw[i].user_created).n < to_datetime(raw[j].user_created).n
          /\ 2 * out[k].user_created.n
                = to_datetime(raw[i].user_created).n + to_datetime(raw[j].user_created).n

\* the state is a flush boundary: nothing is pending in either sink and every
\* record processed so far has its tweets row committed and its document stored
FlushBoundary ==
    /\ mongo_ops = <<>>
    /\ db = durable
    /\ Cardinality(durable.tweets) = total
    /\ Cardinality(col) = total
    /\ pc \in {"upsert", "final_pg", "final_mg"}

\* C24: a run that is asked to stop halts only at a flush boundary, with the
\* current batch flushed to both sinks, never in the middle of a record's
\* write sequence.
C24_GracefulStop == [][pc' = "interrupted" => FlushBoundary]_vars

\* the tags linked in the committed store to the tweet of record k of this run
TagsLinked(k) ==
    { h.tag : h \in { g \in durable.hashtags :
                        \E o \in origin : \E i \in 1..Len(durable.tweet_hashtags) :
                            /\ o.row = k /\ o.run = runs
                            /\ durable.tweet_hashtags[i].tweet_id = o.id
                            /\ durable.tweet_hashtags[i].hashtag_id = g.id } }

\* the elements of the hashtag list a record carries, as a list or as its text
TagElements(cell) ==
    IF cell.kind = "list" THEN cell.l
    ELSE IF literal_eval(cell.s).kind = "list" THEN literal_eval(cell.s).l
    ELSE SplitSpaceComma(HashToSpace(cell.s), <<>>, <<>>)

\* the non-empty cleaned tags of a record
CleanedTags(row) ==
    { CleanTag(TagElements(row.hashtags)[i]) : i \in 1..Len(TagElements(row.hashtags)) }
        \ {<<>>}

\* C25: after a run, for every record the set of tags linked to its tweet, the
\* set of elements of its document's hashtags array and the set of non-empty
\* cleaned tags of its hashtag list are the same set.
C25_TagsAgree ==
    pc = "done" =>
        \A k \in 1..Len(rows) :
            /\ TagsLinked(k) = CleanedTags(rows[k])
            /\ \A d \in col :
                  EmbedsUserOf(d.doc, k) =>
                      Range(d.doc.hashtags) = CleanedTags(rows[k])

\* C26: in run() the relational commit of a flush boundary precedes the bulk
\* write of that boundary: a bulk write starts with nothing uncommitted, at
\* every point of a run the stored documents are no more than the committed
\* tweet rows, and at the end of a run that did not fail the two counts are
\* equal (one per record).
C26_CommitBeforeBulk ==
    /\ [][col' # col /\ col' # {} =>
              /\ db = durable
              /\ Cardinality(col') <= Cardinality(durable.tweets)]_vars
    /\ [](Cardinality(col) <= Cardinality(durable.tweets))
    /\ [](pc = "done" =>
              /\ Cardinality(col) = Cardinality(durable.tweets)
              /\ Cardinality(col) = Len(rows))

\* a run of three records in batches of two has ended: two bulk writes, each
\* after its commit
C26_Witness ==
    /\ pc = "done"
    /\ batch_size = 2
    /\ Len(rows) = 3
    /\ Len(bulks) = 2
    /\ Cardinality(col) = 3
    /\ Cardinality(durable.tweets) = 3

\* the tags the loop of run() links for one record
LoopTags(row) ==
    { CleanTag(IterCell(row.hashtags)[i]) : i \in 1..Len(IterCell(row.hashtags)) }
        \ {<<>>}

\* the row and document counts one run over the file leaves
CountsOf(file) ==
    [users |-> Cardinality({ file[k].user_name : k \in 1..Len(file) }),
     sources |-> Cardinality({ file[k].source : k \in 1..Len(file) } \ {""}),
     tweets |-> Len(file),
     hashtags |-> Cardinality(UNION { LoopTags(file[k]) : k \in 1..Len(file) }),
     tweet_hashtags |-> Cardinality(UNION { {k} \X LoopTags(file[k]) : k \in 1..Len(file) }),
     documents |-> Len(file)]

\* the row and document counts of the stores
StoredCounts ==
    [users |-> Cardinality(durable.users),
     sources |-> Cardinality(durable.sources),
     tweets |-> Cardinality(durable.tweets),
     hashtags |-> Cardinality(durable.hashtags),
     tweet_hashtags |-> Len(durable.tweet_hashtags),
     documents |-> Cardinality(col)]

\* C27: run() drops the five tables and the collection before it loads, so
\* after a successful run the row and document counts are those of one run
\* over the input file, whichever run in a row it is; the tweet ids start
\* again at 1.
C27_RerunSameCounts ==
    /\ [][pc = "clear" /\ pc' # "clear" => durable' = NoTables /\ col' = {}]_vars
    /\ [](pc = "done" =>
              /\ StoredCounts = CountsOf(rows)
              /\ db = durable
              /\ Ids(durable.tweets) = 1..Len(rows))

\* the second run in a row over a file of three records has ended
C27_Witness ==
    /\ pc = "done"
    /\ runs = 2
    /\ Len(rows) = 3
    /\ Cardinality(col) = 3
    /\ Cardinality(durable.tweets) = 3
    /\ durable.tweet_hashtags # <<>>

====
